---- MODULE Spec2Model ----
(***************************************************************************)
(* Red vs Blue counter service: PostgreSQL-backed counter store            *)
(* (CounterRepository), validation layer (CounterService), HTTP handlers   *)
(* (CounterController) and the WebSocket connection registry and           *)
(* broadcast path (WebSocketManager).                                      *)
(***************************************************************************)
EXTENDS Integers, Sequences, FiniteSets, TLC

\* ------------------------------------------------------------------------
\* Bounds of the model
\* ------------------------------------------------------------------------
NumReqs == 2
MaxInitCount == 1
MaxBatch == 2
MaxFaults == 1
NumConns == 2
MaxClientMsgs == 2
MaxSweeps == 1
NumWsReqs == 1
MaxErrors == 2
MaxHours == 1
MaxMs == 1
MaxAdmitted == 7
MaxRuns == 3

Reqs == 1..NumReqs
Conns == 1..NumConns

\* ------------------------------------------------------------------------
\* Program constants and input domains
\* ------------------------------------------------------------------------
\* rows seeded into the counters table
Colors == {"red", "blue"}

\* CounterService.validColors
validColors == {"red", "blue"}

\* color arguments a caller can pass; "undefined" is a missing value
ColorInputs == {"red", "blue", "green", "RED", "undefined"}

\* a JavaScript number n (t = "int"), n + 0.5 (t = "frac"), or no value
Num(n) == [t |-> "int", n |-> n]
Frac(n) == [t |-> "frac", n |-> n]
Undefined == [t |-> "undefined", n |-> 0]
AmountInputs == {Undefined, Num(-1), Num(0), Num(1), Num(2), Frac(1)}

\* the inputs of the concurrent requests
SomeColors == {"red", "blue", "green"}
SomeAmounts == {Undefined, Num(2), Num(-1)}

\* the limit and offset query parameters of GET /api/counters/history: the
\* decimal string of n (t = "int"), of n + 0.5 (t = "frac"), or none
LimitInputs == {Undefined, Num(-1), Num(0), Num(1), Num(2), Num(1000), Num(5000), Frac(1)}
OffsetInputs == {Undefined, Num(-5), Num(0), Num(1), Num(2)}

\* defaults and cap of the history filters
DefaultLimit == 50
DefaultOffset == 0
LimitCap == 1000

NoFilters == [limit |-> 0, offset |-> 0]
NoData == [history |-> <<>>, totalCount |-> 0, hasMore |-> FALSE]

\* the timeRange query parameter of GET /api/counters/stats; "undefined" is
\* a missing value
TimeRangeInputs == {"undefined", "1 hour", "24 hours", "7 days", "30 days", "1 year",
                    "bogus", "constructor", "__proto__"}

\* names every object literal inherits from Object.prototype
ObjectPrototypeKeys == {"constructor", "toString", "valueOf", "hasOwnProperty", "__proto__"}

NoStats == [c \in Colors |-> [current_count |-> 0, total_increments |-> 0,
                              total_increment_amount |-> 0]]

\* adminRateLimit = createRateLimit(60 * 60 * 1000, 5)
adminWindowMs == 3600000
adminMax == 5

\* the addresses req.ip takes
ClientIps == {"10.0.0.1", "10.0.0.2"}

\* the times at which requests arrive: up to MaxHours windows and MaxMs
\* milliseconds after the start
Times == {h * adminWindowMs + m : h \in 0..MaxHours, m \in 0..MaxMs}

NoRequests == [ip \in {} |-> 0]
NoneAdmitted == [ip \in ClientIps |-> [t \in Times |-> 0]]

NoWrites == [c \in {} |-> 0]
InvalidColorError == "Invalid color"
InvalidAmountError == "Increment amount must be a positive integer"
StorageError == "Failed to increment counter"

\* what a client can send: the five request types, a type the server does not
\* know, and a payload JSON.parse rejects
ClientMessages == {"ping", "get_counters", "get_stats", "subscribe_updates",
                   "unsubscribe_updates", "unknown", "garbage"}

\* a message the server sends
Msg(type) == [type |-> type, data |-> [c \in Colors |-> 0], subscribed |-> FALSE]
CounterUpdate(snapshot) == [Msg("counter_update") EXCEPT !.data = snapshot]
SubscriptionConfirmed(b) == [Msg("subscription_confirmed") EXCEPT !.subscribed = b]

\* ------------------------------------------------------------------------
\* State
\* ------------------------------------------------------------------------
VARIABLES
  counters,   \* committed rows of table counters: color -> count
  history,    \* committed rows of table counter_history, in insertion order
  rowLock,    \* row lock of each counters row: the set of its holders (at most one)
  count0,     \* the counts at the start of the behaviour
  faults,     \* storage failures still to be injected
  http,       \* one record per request being handled
  ws,         \* one record per WebSocket transport and its client object
  clients,    \* WebSocketManager.clients: client id -> connection of the entry
  msgsLeft,   \* client messages still to arrive
  sweepsLeft, \* runs of the periodic cleanup still to come
  now,        \* Date.now(), in milliseconds since the start of the behaviour
  requests,   \* the Map of adminRateLimit: req.ip -> {count, resetTime}
  admitted,   \* reset requests adminRateLimit passed on: req.ip -> time -> number
  tables,     \* the tables that exist in the database
  migrationsTable, \* the version column of table migrations, in insertion order
  runner      \* one record per call of MigrationManager.migrate()

storeVars == <<counters, history, rowLock, count0>>
wsVars == <<ws, clients, msgsLeft, sweepsLeft>>
rateVars == <<now, requests, admitted>>
schemaVars == <<tables, migrationsTable, runner>>
vars == <<counters, history, rowLock, count0, faults, http, ws, clients, msgsLeft, sweepsLeft,
          now, requests, admitted, tables, migrationsTable, runner>>

\* this.migrations: the versions in the order of the list
Migrations == <<"001", "002">>
AllTables == {"migrations", "counters", "counter_history"}
Runs == 1..MaxRuns
IdleRun == [pc |-> "idle", appliedMigrations |-> <<>>, i |-> 0, ran |-> 0, later |-> FALSE]

IdleReq == [pc |-> "idle", kind |-> "none", color |-> "undefined", incrementBy |-> Undefined,
            total |-> 0, remaining |-> 0,
            previousCount |-> 0, newCount |-> 0,
            rows |-> <<>>, writes |-> NoWrites, inserts |-> <<>>,
            client |-> "none", releases |-> 0, txStarted |-> 0,
            successful |-> <<>>, failed |-> <<>>, success |-> FALSE, error |-> "",
            broadcasts |-> 0, snapshot |-> [c \in Colors |-> 0], status |-> 0,
            threw |-> FALSE,
            filters |-> NoFilters, params |-> NoFilters, data |-> NoData,
            timeRange |-> "undefined", stats |-> NoStats,
            health |-> "none", database |-> "none"]

\* a transport no client has connected yet, and the fields handleConnection
\* and the handlers' closures keep for it
\* sent: the messages the last handler that sent to the transport wrote to it;
\* nsent: the number of messages written to it so far;
\* message: the last message that arrived on it; nrecv: how many arrived;
\* nerr: the number of 'error' events emitted on it
NoPending == [k \in {"get_counters", "get_stats"} |-> 0]
NoConn == [readyState |-> "CONNECTING", pc |-> "none", handlers |-> FALSE, clientId |-> 0,
           subscribed |-> "undefined", isAlive |-> FALSE,
           sent |-> <<>>, nsent |-> 0, pending |-> NoPending,
           pinged |-> FALSE, timer |-> FALSE, message |-> "", nrecv |-> 0, nerr |-> 0,
           sendThrows |-> FALSE, caught |-> 0]

NoClients == [id \in {} |-> 0]

Init ==
  /\ ws = [c \in Conns |-> NoConn]
  /\ clients = NoClients
  /\ msgsLeft = MaxClientMsgs
  /\ sweepsLeft = MaxSweeps
  /\ count0 \in [Colors -> 0..MaxInitCount]
  /\ counters = count0
  /\ history = <<>>
  /\ rowLock = [c \in Colors |-> {}]
  /\ faults = MaxFaults
  /\ http = [p \in Reqs |-> IdleReq]
  /\ now = 0
  /\ requests = NoRequests
  /\ admitted = NoneAdmitted
  /\ tables = AllTables
  /\ migrationsTable = Migrations
  /\ runner = [r \in Runs |-> IdleRun]

\* ------------------------------------------------------------------------
\* CounterService: validation
\* ------------------------------------------------------------------------
\* String.prototype.toLowerCase over the color inputs; color?.toLowerCase()
\* of a missing value is undefined
toLowerCase(s) == IF s = "RED" THEN "red" ELSE s

isValidColor(color) == toLowerCase(color) \in validColors

\* destructuring default: incrementBy = 1 applies to undefined only
DefaultOne(a) == IF a = Undefined THEN Num(1) ELSE a

\* req.body?.incrementBy || 1 : every falsy value becomes 1
OrOne(a) == IF a = Undefined \/ a = Num(0) THEN Num(1) ELSE a

NumberIsInteger(a) == a.t = "int"

\* an amount check that lets every integer pass
NotAnInteger(a) == ~NumberIsInteger(a)

\* an amount check that lets 0 pass
NegativeAmount(a) == ~NumberIsInteger(a) \/ a.n < 0

\* !Number.isInteger(incrementBy) || incrementBy < 1
InvalidAmount(a) == ~NumberIsInteger(a) \/ a.n < 1

\* the outcome of the synchronous prefix of CounterService.incrementCounter:
\* a validation error, or "" when the repository is called
ValidationError(color, incrementBy) ==
  IF ~isValidColor(color) THEN InvalidColorError
  ELSE IF InvalidAmount(incrementBy) THEN InvalidAmountError
  ELSE ""

\* ------------------------------------------------------------------------
\* CounterController: what the handler does once the service call returned
\* ------------------------------------------------------------------------
\* req.wsManager.broadcastCounterUpdate() is invoked: sendCounterUpdate()
\* issues getCurrentCounters()
InvokeBroadcast(h) == [h EXCEPT !.pc = "bcast_read", !.broadcasts = @ + 1]

\* the response is sent and the locals of the transaction and of the
\* broadcast go out of scope
Respond(h, code) ==
  [h EXCEPT !.pc = "done", !.status = code,
            !.previousCount = 0, !.newCount = 0, !.rows = <<>>,
            !.snapshot = [c \in Colors |-> 0]]

\* a batch result that reports success when some item succeeded
BatchReturnedAnyOk(h) ==
  LET ok == Len(h.successful) > 0
      h1 == [h EXCEPT !.success = ok]
  IN IF ok THEN InvokeBroadcast(h1) ELSE Respond(h1, 207)

\* batchIncrementCounters returned: success iff no item failed
BatchReturned(h) ==
  LET ok == Len(h.failed) = 0
      h1 == [h EXCEPT !.success = ok]
  IN IF ok THEN InvokeBroadcast(h1) ELSE Respond(h1, 207)

\* CounterService.incrementCounter returned a success result with data d
IncrementSucceeded(h, d) ==
  IF h.kind = "batch"
  THEN LET h1 == [h EXCEPT !.successful = Append(@, d)]
       IN IF h1.remaining > 0 THEN [h1 EXCEPT !.pc = "batch"] ELSE BatchReturned(h1)
  ELSE InvokeBroadcast([h EXCEPT !.successful = Append(@, d), !.success = TRUE])

\* CounterService.incrementCounter returned {success: false, error: e}
IncrementFailed(h, e) ==
  IF h.kind = "batch"
  THEN LET h1 == [h EXCEPT !.failed = Append(@, [color |-> h.color, error |-> e])]
       IN IF h1.remaining > 0 THEN [h1 EXCEPT !.pc = "batch"] ELSE BatchReturned(h1)
  ELSE Respond([h EXCEPT !.success = FALSE, !.error = e], 400)

\* CounterService.incrementCounter(color, {incrementBy}) up to its first await
ServiceIncrement(h, color, amount) ==
  LET incrementBy == DefaultOne(amount)
      e == ValidationError(color, incrementBy)
      h1 == [h EXCEPT !.color = color, !.incrementBy = incrementBy]
  IN IF e # "" THEN IncrementFailed(h1, e)
     ELSE [h1 EXCEPT !.pc = "begin", !.txStarted = @ + 1]

\* POST /api/red and POST /api/blue
incrementColor(p, color, body) ==
  /\ http[p].pc = "idle"
  /\ http' = [http EXCEPT ![p] =
        ServiceIncrement([@ EXCEPT !.kind = color, !.total = 1], color, OrOne(body))]
  /\ UNCHANGED <<storeVars, faults, wsVars, rateVars, schemaVars>>

\* POST /api/counters/batch with n items
batchIncrement(p, n) ==
  /\ http[p].pc = "idle"
  /\ http' = [http EXCEPT ![p] =
        IF n = 0 THEN Respond([@ EXCEPT !.kind = "batch"], 400)
        ELSE [@ EXCEPT !.kind = "batch", !.pc = "batch", !.total = n, !.remaining = n]]
  /\ UNCHANGED <<storeVars, faults, wsVars, rateVars, schemaVars>>

\* one iteration of the loop of batchIncrementCounters
BatchItem(p, color, amount) ==
  /\ http[p].pc = "batch"
  /\ http' = [http EXCEPT ![p] =
        ServiceIncrement([@ EXCEPT !.remaining = @ - 1], color, amount)]
  /\ UNCHANGED <<storeVars, faults, wsVars, rateVars, schemaVars>>

\* POST /api/counters/reset
resetCounters(p) ==
  /\ http[p].pc = "idle"
  /\ http' = [http EXCEPT ![p] = [@ EXCEPT !.kind = "reset", !.pc = "begin", !.txStarted = @ + 1]]
  /\ UNCHANGED <<storeVars, faults, wsVars, rateVars, schemaVars>>

\* CounterRepository.incrementCounter(color, incrementBy = 1) called directly,
\* as the module exports it: nothing validates its arguments before beginTransaction
repositoryIncrement(p, color, amount) ==
  /\ http[p].pc = "idle"
  /\ http' = [http EXCEPT ![p] =
        [@ EXCEPT !.kind = "store", !.total = 1, !.color = color,
                  !.incrementBy = DefaultOne(amount),
                  !.pc = "begin", !.txStarted = @ + 1]]
  /\ UNCHANGED <<storeVars, faults, wsVars, rateVars, schemaVars>>

\* parseInt(q) || d for a query parameter q: NaN for a missing value, the
\* integer part of a decimal string, and d in place of NaN and of 0
ParseIntOr(q, d) == IF q.t = "undefined" \/ q.n = 0 THEN d ELSE q.n

MathMin(a, b) == IF a < b THEN a ELSE b
MathMax(a, b) == IF a > b THEN a ELSE b

\* a limit passed to the repository as it was requested
UncappedLimit(limit) == limit

\* Math.min(limit, 1000)
EffectiveLimit(limit) == MathMin(limit, LimitCap)

\* Math.max(offset, 0)
EffectiveOffset(offset) == MathMax(offset, 0)

\* CounterService.getCounterHistory(filters) up to its first await: a color
\* that is given and not valid is rejected, else the repository is called
\* with the capped limit and the offset raised to 0
ServiceGetCounterHistory(h, color, limit, offset) ==
  LET h1 == [h EXCEPT !.color = color, !.filters = [limit |-> limit, offset |-> offset]]
  IN IF color # "undefined" /\ ~isValidColor(color)
     THEN Respond([h1 EXCEPT !.success = FALSE, !.error = InvalidColorError], 400)
     ELSE [h1 EXCEPT !.pc = "history_rows",
                     !.params = [limit |-> EffectiveLimit(limit),
                                 offset |-> EffectiveOffset(offset)]]

\* GET /api/counters/history?color=..&limit=..&offset=..
getHistory(p, color, qlimit, qoffset) ==
  /\ http[p].pc = "idle"
  /\ http' = [http EXCEPT ![p] =
        ServiceGetCounterHistory([@ EXCEPT !.kind = "history"], color,
                                 ParseIntOr(qlimit, DefaultLimit),
                                 ParseIntOr(qoffset, DefaultOffset))]
  /\ UNCHANGED <<storeVars, faults, wsVars, rateVars, schemaVars>>

\* the rows of counter_history with the color of the filter, if one is given
Matching(color) ==
  SelectSeq(history, LAMBDA e : color = "undefined" \/ e.color = color)

\* the orders ORDER BY timestamp DESC can give n rows whose timestamps, the
\* start time of their transaction, do not tell them apart
RowOrders(n) == {f \in [1..n -> 1..n] : \A i, j \in 1..n : f[i] = f[j] => i = j}

\* SELECT ... FROM counter_history WHERE .. ORDER BY timestamp DESC LIMIT $n
\* OFFSET $m; a negative LIMIT is an error of the database, which the catch
\* blocks of the repository and of the service turn into a failure result
HistoryRows(p, order) ==
  LET h == http[p]
      matching == Matching(h.color)
      sorted == [i \in 1..Len(matching) |-> matching[order[i]]]
      first == h.params.offset + 1
      last == MathMin(h.params.offset + h.params.limit, Len(matching))
  IN
  /\ h.pc = "history_rows"
  /\ order \in RowOrders(Len(matching))
  /\ http' = [http EXCEPT ![p] =
        IF h.params.limit < 0
        THEN Respond([h EXCEPT !.success = FALSE,
                               !.error = "Failed to retrieve counter history"], 400)
        ELSE [h EXCEPT !.pc = "history_count",
                       !.data.history = SubSeq(sorted, first, last)]]
  /\ UNCHANGED <<storeVars, faults, wsVars, rateVars, schemaVars>>

\* SELECT COUNT(*) FROM counter_history WHERE ..; the result is returned with
\* its pagination and the handler answers
HistoryCount(p) ==
  LET h == http[p]
      totalCount == Len(Matching(h.color))
  IN
  /\ h.pc = "history_count"
  /\ http' = [http EXCEPT ![p] =
        Respond([h EXCEPT !.success = TRUE, !.data.totalCount = totalCount,
                          !.data.hasMore = (h.params.offset + h.params.limit < totalCount)], 200)]
  /\ UNCHANGED <<storeVars, faults, wsVars, rateVars, schemaVars>>

\* one of the two queries fails
HistoryQueryFails(p) ==
  /\ http[p].pc \in {"history_rows", "history_count"}
  /\ faults > 0
  /\ faults' = faults - 1
  /\ http' = [http EXCEPT ![p] =
        Respond([@ EXCEPT !.success = FALSE, !.data = NoData,
                          !.error = "Failed to retrieve counter history"], 400)]
  /\ UNCHANGED <<storeVars, wsVars, rateVars, schemaVars>>

\* the object literal of getTimeRangeQuery: label -> hours of the interval
ranges ==
  ("1 hour" :> 1) @@ ("24 hours" :> 24) @@ ("7 days" :> 168) @@ ("30 days" :> 720)
    @@ ("1 year" :> 8760)

\* getTimeRangeQuery(timeRange): ranges[timeRange] || ranges['24 hours'].
\* The lookup of an inherited name yields a function or an object, which is
\* truthy and is interpolated into the statement as text that is not SQL
getTimeRangeQuery(timeRange) ==
  IF timeRange \in DOMAIN ranges THEN [sql |-> TRUE, hours |-> ranges[timeRange]]
  ELSE IF timeRange \in ObjectPrototypeKeys THEN [sql |-> FALSE, hours |-> 0]
  ELSE [sql |-> TRUE, hours |-> ranges["24 hours"]]

RECURSIVE SumAmount(_)
SumAmount(es) == IF es = <<>> THEN 0 ELSE Head(es).increment_amount + SumAmount(Tail(es))

\* the rows of the statistics query for the window of the last `hours`
\* hours, NOW() being 0: per color the current count, COUNT(*) and
\* SUM(increment_amount) of the history rows with timestamp >= NOW() - hours
StatsWithin(hours) ==
  [c \in Colors |->
     LET es == SelectSeq(history, LAMBDA e : e.color = c /\ e.timestamp >= 0 - hours)
     IN [current_count |-> counters[c], total_increments |-> Len(es),
         total_increment_amount |-> SumAmount(es)]]

\* GET /api/counters/stats?timeRange=..: req.query.timeRange || '24 hours',
\* then getCounterStatistics(timeRange) up to its await
getStatistics(p, q) ==
  /\ http[p].pc = "idle"
  /\ http' = [http EXCEPT ![p] =
        [@ EXCEPT !.kind = "stats", !.pc = "stats_query",
                  !.timeRange = IF q = "undefined" THEN "24 hours" ELSE q]]
  /\ UNCHANGED <<storeVars, faults, wsVars, rateVars, schemaVars>>

\* getCounterStats(timeRange): the statement built with getTimeRangeQuery is
\* run; a statement that is not SQL is rejected, the repository throws and
\* the service returns a failure result, answered with 500
StatsQuery(p) ==
  LET h == http[p]
      timeQuery == getTimeRangeQuery(h.timeRange)
  IN
  /\ h.pc = "stats_query"
  /\ http' = [http EXCEPT ![p] =
        IF timeQuery.sql
        THEN Respond([h EXCEPT !.success = TRUE, !.stats = StatsWithin(timeQuery.hours)], 200)
        ELSE Respond([h EXCEPT !.success = FALSE,
                               !.error = "Failed to retrieve counter statistics"], 500)]
  /\ UNCHANGED <<storeVars, faults, wsVars, rateVars, schemaVars>>

\* the statistics query fails
StatsQueryFails(p) ==
  /\ http[p].pc = "stats_query"
  /\ faults > 0
  /\ faults' = faults - 1
  /\ http' = [http EXCEPT ![p] =
        Respond([@ EXCEPT !.success = FALSE,
                          !.error = "Failed to retrieve counter statistics"], 500)]
  /\ UNCHANGED <<storeVars, wsVars, rateVars, schemaVars>>

\* a health status that does not look at the probe
AlwaysHealthy(dbHealth) == "healthy"

\* dbHealth.status === 'healthy' ? 'healthy' : 'unhealthy'
HealthStatus(dbHealth) == IF dbHealth = "healthy" THEN "healthy" ELSE "unhealthy"

\* GET /api/health: getHealthStatus() up to its first await
healthCheck(p) ==
  /\ http[p].pc = "idle"
  /\ http' = [http EXCEPT ![p] = [@ EXCEPT !.kind = "health", !.pc = "health_probe"]]
  /\ UNCHANGED <<storeVars, faults, wsVars, rateVars, schemaVars>>

\* counterRepository.healthCheck(): SELECT 1 FROM counters LIMIT 1 succeeds
\* (ok) or fails; the repository returns a status in both cases
HealthProbe(p, ok) ==
  /\ http[p].pc = "health_probe"
  /\ http' = [http EXCEPT ![p] =
        [@ EXCEPT !.pc = "health_counters",
                  !.database = IF ok THEN "healthy" ELSE "unhealthy"]]
  /\ UNCHANGED <<storeVars, faults, wsVars, rateVars, schemaVars>>

\* counterRepository.getCounters() resolves (ok) and the status is derived
\* from the probe, or throws into the catch block of getHealthStatus; the
\* handler answers 200 for 'healthy' and 503 otherwise
HealthCounters(p, ok) ==
  LET h == http[p]
      status == IF ok THEN HealthStatus(h.database) ELSE "unhealthy"
      h1 == IF ok THEN [h EXCEPT !.health = status, !.success = TRUE]
            ELSE [h EXCEPT !.health = status, !.database = "none",
                           !.error = "Failed to fetch counter values"]
  IN
  /\ h.pc = "health_counters"
  /\ http' = [http EXCEPT ![p] = Respond(h1, IF status = "healthy" THEN 200 ELSE 503)]
  /\ UNCHANGED <<storeVars, faults, wsVars, rateVars, schemaVars>>

\* the loop of createRateLimit that deletes the entries older than the window
CleanOld(reqs, t) ==
  [ip \in {k \in DOMAIN reqs : ~(t - reqs[k].resetTime > adminWindowMs)} |-> reqs[ip]]

\* createRateLimit: the request of ip at time t is passed on with next():
\* there is no entry for ip, or its entry is older than the window, or its
\* count is below max
CallsNext(reqs, ip, t) ==
  LET cleaned == CleanOld(reqs, t) IN
  \/ ip \notin DOMAIN cleaned
  \/ t - cleaned[ip].resetTime > adminWindowMs
  \/ cleaned[ip].count < adminMax

\* createRateLimit: the Map after the request of ip at time t
Counted(reqs, ip, t) ==
  LET cleaned == CleanOld(reqs, t) IN
  IF ip \notin DOMAIN cleaned \/ t - cleaned[ip].resetTime > adminWindowMs
  THEN (ip :> [count |-> 1, resetTime |-> t]) @@ cleaned
  ELSE IF cleaned[ip].count >= adminMax THEN cleaned
  ELSE [cleaned EXCEPT ![ip].count = @ + 1]

RECURSIVE Total(_, _)
\* the number of requests of ip passed on at the times of S
Total(ip, S) ==
  IF S = {} THEN 0
  ELSE LET t == CHOOSE u \in S : TRUE IN admitted[ip][t] + Total(ip, S \ {t})

\* POST /api/counters/reset from address ip: adminRateLimit, then the
\* handler, or the answer 429
postReset(p, ip) ==
  /\ http[p].pc \in {"idle", "done"}
  /\ Total("10.0.0.1", Times) + Total("10.0.0.2", Times) < MaxAdmitted
  /\ requests' = Counted(requests, ip, now)
  /\ IF CallsNext(requests, ip, now)
     THEN /\ admitted' = [admitted EXCEPT ![ip][now] = @ + 1]
          /\ http' = [http EXCEPT ![p] =
                [IdleReq EXCEPT !.kind = "reset", !.pc = "begin", !.txStarted = 1]]
     ELSE /\ UNCHANGED admitted
          /\ http' = [http EXCEPT ![p] = Respond([IdleReq EXCEPT !.kind = "reset"], 429)]
  /\ UNCHANGED <<storeVars, faults, wsVars, now, schemaVars>>

\* d milliseconds pass
Advance(d) ==
  /\ now + d \in Times
  /\ now' = now + d
  /\ UNCHANGED <<storeVars, faults, http, wsVars, requests, admitted, schemaVars>>

\* a service method without its catch block: the exception reaches the
\* handler's asyncHandler, which answers 500 through the error middleware
ServiceRethrows(h) == Respond([h EXCEPT !.threw = TRUE], 500)

\* ------------------------------------------------------------------------
\* DatabaseConfig and CounterRepository: the transactions, one action per
\* awaited statement
\* ------------------------------------------------------------------------
\* CounterRepository.incrementCounter, called by a caller other than the
\* service, returned its result d
RepositoryReturned(h, d) ==
  [Respond(h, 0) EXCEPT !.successful = <<d>>, !.success = TRUE]

\* CounterRepository.incrementCounter threw 'Failed to increment ... counter'
\* to a caller other than the service
RepositoryThrew(h) ==
  [Respond(h, 0) EXCEPT !.success = FALSE, !.error = StorageError]

\* the repository call threw: the service's catch block, or the direct caller
ServiceCaught(h) ==
  IF h.kind = "reset"
  THEN Respond([h EXCEPT !.success = FALSE, !.error = "Failed to reset counters"], 500)
  ELSE IF h.kind = "store" THEN RepositoryThrew(h)
  ELSE IncrementFailed(h, StorageError)

\* a COMMIT of an UPDATE without its WHERE clause: every row gets the value
CommittedEveryRow(cs, writes) ==
  [c \in Colors |-> IF DOMAIN writes = {} THEN cs[c]
                    ELSE writes[CHOOSE k \in DOMAIN writes : TRUE]]

\* the rows a transaction's COMMIT makes visible
CommittedCounters(cs, writes) ==
  [c \in Colors |-> IF c \in DOMAIN writes THEN writes[c] ELSE cs[c]]

\* a ROLLBACK that leaves the transaction's writes in place
RolledBackKeepsWrites(cs, writes) == CommittedCounters(cs, writes)

\* what is left of the committed counters after ROLLBACK of a transaction
\* that wrote `writes`
RolledBackCounters(cs, writes) == cs

ReleaseLocks(p) == [c \in Colors |-> rowLock[c] \ {p}]

\* pool.connect() and BEGIN both succeed
beginTransaction(p) ==
  /\ http[p].pc = "begin"
  /\ http' = [http EXCEPT ![p].pc = IF http[p].kind = "reset" THEN "select_all" ELSE "select",
                          ![p].client = "held"]
  /\ UNCHANGED <<storeVars, faults, wsVars, rateVars, schemaVars>>

\* pool.connect() rejects, or BEGIN fails on the connected client (which is
\* never released): the exception leaves the repository method, which calls
\* beginTransaction outside its try block
beginTransactionFails(p, connected) ==
  /\ http[p].pc = "begin"
  /\ faults > 0
  /\ faults' = faults - 1
  /\ http' = [http EXCEPT ![p] =
        ServiceCaught([@ EXCEPT !.client = IF connected THEN "held" ELSE "none"])]
  /\ UNCHANGED <<storeVars, wsVars, rateVars, schemaVars>>

\* a FOR UPDATE read that ignores the lock another transaction holds
RowLockIgnored(p, color) == TRUE

\* FOR UPDATE: the statement waits while another transaction holds the row lock
RowLockGranted(p, color) == rowLock[color] \subseteq {p}

\* SELECT count FROM counters WHERE color = $1 FOR UPDATE: waits for the row
\* lock, then reads the committed count; no row for a color not in the table
SelectForUpdate(p) ==
  LET h == http[p] IN
  /\ h.pc = "select"
  /\ IF h.color \in Colors
     THEN /\ RowLockGranted(p, h.color)
          /\ rowLock' = [rowLock EXCEPT ![h.color] = {p}]
          /\ http' = [http EXCEPT ![p].pc = "update",
                                  ![p].previousCount = counters[h.color],
                                  ![p].newCount = counters[h.color] + h.incrementBy.n]
     ELSE /\ http' = [http EXCEPT ![p].pc = "rollback"]
          /\ UNCHANGED rowLock
  /\ UNCHANGED <<counters, history, count0, faults, wsVars, rateVars, schemaVars>>

\* UPDATE counters SET count = $1 WHERE color = $2
UpdateCounter(p) ==
  LET h == http[p] IN
  /\ h.pc = "update"
  /\ http' = [http EXCEPT ![p].pc = "commit",
                          ![p].writes = (h.color :> h.newCount) @@ @]
  /\ UNCHANGED <<storeVars, faults, wsVars, rateVars, schemaVars>>

\* a read for the reset that returns only the rows with a count other than 0
SelectNonZero(p, order) ==
  LET nonzero == SelectSeq(order, LAMBDA c : counters[c] # 0) IN
  /\ http[p].pc = "select_all"
  /\ http' = [http EXCEPT ![p].pc = "update_all",
                          ![p].rows = [i \in 1..Len(nonzero) |->
                                         [color |-> nonzero[i], count |-> counters[nonzero[i]]]]]
  /\ UNCHANGED <<storeVars, faults, wsVars, rateVars, schemaVars>>

\* SELECT color, count FROM counters (reset): a plain read of the committed
\* rows, in an order the query does not fix
SelectAll(p, order) ==
  /\ http[p].pc = "select_all"
  /\ http' = [http EXCEPT ![p].pc = "update_all",
                          ![p].rows = [i \in 1..Len(order) |->
                                         [color |-> order[i], count |-> counters[order[i]]]]]
  /\ UNCHANGED <<storeVars, faults, wsVars, rateVars, schemaVars>>

\* UPDATE counters SET count = 0 (reset): waits for the lock of every row
UpdateAll(p) ==
  /\ http[p].pc = "update_all"
  /\ \A c \in Colors : rowLock[c] \subseteq {p}
  /\ rowLock' = [c \in Colors |-> {p}]
  /\ http' = [http EXCEPT ![p].pc = IF Len(http[p].rows) = 0 THEN "commit" ELSE "insert",
                          ![p].writes = [c \in Colors |-> 0]]
  /\ UNCHANGED <<counters, history, count0, faults, wsVars, rateVars, schemaVars>>

\* an INSERT that records the count itself as the increment amount
InsertPositiveAmount(p) ==
  LET h == http[p]
      row == h.rows[Len(h.inserts) + 1]
      entry == [color |-> row.color, previous_count |-> row.count, new_count |-> 0,
                increment_amount |-> row.count]
  IN
  /\ h.pc = "insert"
  /\ http' = [http EXCEPT ![p].inserts = Append(@, entry),
                          ![p].pc = IF Len(h.inserts) + 1 = Len(h.rows) THEN "commit" ELSE "insert"]
  /\ UNCHANGED <<storeVars, faults, wsVars, rateVars, schemaVars>>

\* INSERT INTO counter_history ... VALUES ($1, $2, 0, $3, $4) for the next row
InsertResetHistory(p) ==
  LET h == http[p]
      row == h.rows[Len(h.inserts) + 1]
      entry == [color |-> row.color, previous_count |-> row.count, new_count |-> 0,
                increment_amount |-> 0 - row.count]
  IN
  /\ h.pc = "insert"
  /\ http' = [http EXCEPT ![p].inserts = Append(@, entry),
                          ![p].pc = IF Len(h.inserts) + 1 = Len(h.rows) THEN "commit" ELSE "insert"]
  /\ UNCHANGED <<storeVars, faults, wsVars, rateVars, schemaVars>>

\* a statement of the transaction fails: the catch block issues ROLLBACK
QueryFails(p) ==
  /\ http[p].pc \in {"select", "update", "select_all", "update_all", "insert"}
  /\ faults > 0
  /\ faults' = faults - 1
  /\ http' = [http EXCEPT ![p].pc = "rollback"]
  /\ UNCHANGED <<storeVars, wsVars, rateVars, schemaVars>>

\* COMMIT succeeds; the client is released; the repository method returns
commitTransaction(p) ==
  LET h == http[p]
      h1 == [h EXCEPT !.client = "released", !.releases = @ + 1,
                      !.writes = NoWrites, !.inserts = <<>>]
  IN
  /\ h.pc = "commit"
  /\ counters' = CommittedCounters(counters, h.writes)
  /\ history' = history \o h.inserts
  /\ rowLock' = ReleaseLocks(p)
  /\ http' = [http EXCEPT ![p] =
        LET d == [color |-> h.color, previousCount |-> h.previousCount,
                  newCount |-> h.newCount, incrementBy |-> h.incrementBy.n]
        IN IF h.kind = "reset" THEN InvokeBroadcast([h1 EXCEPT !.success = TRUE])
           ELSE IF h.kind = "store" THEN RepositoryReturned(h1, d)
           ELSE IncrementSucceeded(h1, d)]
  /\ UNCHANGED <<count0, faults, wsVars, rateVars, schemaVars>>

\* COMMIT fails: the transaction is aborted, the finally block releases the
\* client and the catch block of the repository method issues ROLLBACK
commitTransactionFails(p) ==
  /\ http[p].pc = "commit"
  /\ faults > 0
  /\ faults' = faults - 1
  /\ http' = [http EXCEPT ![p].pc = "rollback", ![p].client = "released",
                          ![p].releases = @ + 1]
  /\ UNCHANGED <<storeVars, wsVars, rateVars, schemaVars>>

\* ROLLBACK: the transaction's writes are discarded and its locks released;
\* the client is released (again, after a failed COMMIT); the repository
\* method throws and the service's catch block builds the failure result
rollbackTransaction(p) ==
  LET h == http[p] IN
  /\ h.pc = "rollback"
  /\ counters' = RolledBackCounters(counters, h.writes)
  /\ rowLock' = ReleaseLocks(p)
  /\ http' = [http EXCEPT ![p] =
        ServiceCaught([h EXCEPT !.client = "released", !.releases = @ + 1,
                                !.writes = NoWrites, !.inserts = <<>>])]
  /\ UNCHANGED <<history, count0, faults, wsVars, rateVars, schemaVars>>

\* ROLLBACK fails because the connection is lost, so the server aborts the
\* transaction; the finally block releases the client and the exception
\* leaves the repository's catch block for the service's catch block
rollbackTransactionFails(p) ==
  LET h == http[p] IN
  /\ h.pc = "rollback"
  /\ faults > 0
  /\ faults' = faults - 1
  /\ counters' = RolledBackCounters(counters, h.writes)
  /\ rowLock' = ReleaseLocks(p)
  /\ http' = [http EXCEPT ![p] =
        ServiceCaught([h EXCEPT !.client = "released", !.releases = @ + 1,
                                !.writes = NoWrites, !.inserts = <<>>])]
  /\ UNCHANGED <<history, count0, wsVars, rateVars, schemaVars>>

\* ------------------------------------------------------------------------
\* WebSocketManager: sending
\* ------------------------------------------------------------------------
\* sendMessage(ws, message): ws.send only while the transport is open; an
\* exception of ws.send is caught and logged
sendMessage(w, m) ==
  IF w.readyState = "OPEN"
  THEN IF w.sendThrows THEN [w EXCEPT !.caught = @ + 1]
       ELSE [w EXCEPT !.sent = Append(@, m), !.nsent = @ + 1]
  ELSE w

\* a handler starts to run: nothing written to the transport by it yet, no
\* exception caught by it yet
Enter(w) == [w EXCEPT !.sent = <<>>, !.caught = 0]

\* from now on ws.send throws on the open transport of connection c
SendBreaks(c) ==
  /\ ws[c].readyState = "OPEN"
  /\ ~ws[c].sendThrows
  /\ ws' = [ws EXCEPT ![c].sendThrows = TRUE]
  /\ UNCHANGED <<storeVars, faults, http, clients, msgsLeft, sweepsLeft, rateVars, schemaVars>>

\* sendError(ws, errorMessage)
sendError(w) == sendMessage(w, Msg("error"))

\* a filter that lets every registry entry pass
AllClients(w, cl) == {c \in Conns : \E id \in DOMAIN cl : cl[id] = c}

\* the connections of the registry entries that pass the filter
\* client.subscribed !== false
subscribedClients(w, cl) ==
  {c \in Conns : \E id \in DOMAIN cl : cl[id] = c /\ w[c].subscribed # "false"}

\* a broadcast that sends the message twice to every filtered entry
BroadcastTwice(w, cl, m) ==
  [c \in Conns |-> IF \E id \in DOMAIN cl : cl[id] = c /\ w[c].subscribed # "false"
                   THEN sendMessage(sendMessage(Enter(w[c]), m), m) ELSE w[c]]

\* a broadcast whose loop is left by the first exception of a send
BroadcastStopsAtThrow(w, cl, m) ==
  LET target(c) == c \in subscribedClients(w, cl) /\ w[c].readyState = "OPEN"
      reached(c) == \A d \in Conns : (d < c /\ target(d)) => ~w[d].sendThrows
  IN [c \in Conns |-> IF target(c) /\ reached(c) /\ ~w[c].sendThrows
                       THEN sendMessage(Enter(w[c]), m) ELSE w[c]]

\* broadcastToSubscribed(message): sendMessage to every filtered entry whose
\* transport is open
broadcastToSubscribed(w, cl, m) ==
  [c \in Conns |-> IF c \in subscribedClients(w, cl) /\ w[c].readyState = "OPEN"
                   THEN sendMessage(Enter(w[c]), m) ELSE w[c]]

\* a deregistration that empties the registry when the id is unknown
DisconnectOrClear(cl, id) ==
  IF id \in DOMAIN cl THEN [i \in DOMAIN cl \ {id} |-> cl[i]] ELSE [i \in {} |-> 0]

\* handleDisconnection(clientId): delete the entry if there is one
handleDisconnection(cl, id) ==
  [i \in DOMAIN cl \ {id} |-> cl[i]]

\* a broadcast that sends the counts the server started with
BroadcastReadInitial(p) ==
  /\ http[p].pc = "bcast_read"
  /\ http' = [http EXCEPT ![p].pc = "bcast_send", ![p].snapshot = count0]
  /\ UNCHANGED <<storeVars, faults, wsVars, rateVars, schemaVars>>

\* ------------------------------------------------------------------------
\* WebSocketManager.broadcastCounterUpdate, as awaited by the handlers
\* ------------------------------------------------------------------------
\* getCurrentCounters(): SELECT color, count, updated_at FROM counters
BroadcastRead(p) ==
  /\ http[p].pc = "bcast_read"
  /\ http' = [http EXCEPT ![p].pc = "bcast_send", ![p].snapshot = counters]
  /\ UNCHANGED <<storeVars, faults, wsVars, rateVars, schemaVars>>

\* getCurrentCounters() returned success: false: sendCounterUpdate returns
\* without sending, and the handler answers the request
BroadcastReadFails(p) ==
  /\ http[p].pc = "bcast_read"
  /\ faults > 0
  /\ faults' = faults - 1
  /\ http' = [http EXCEPT ![p] = Respond(@, 200)]
  /\ UNCHANGED <<storeVars, wsVars, rateVars, schemaVars>>

\* broadcastToSubscribed(message), then res.json(...)
BroadcastSend(p) ==
  /\ http[p].pc = "bcast_send"
  /\ ws' = broadcastToSubscribed(ws, clients, CounterUpdate(http[p].snapshot))
  /\ http' = [http EXCEPT ![p] = Respond(@, 200)]
  /\ UNCHANGED <<storeVars, faults, clients, msgsLeft, sweepsLeft, rateVars, schemaVars>>

\* ------------------------------------------------------------------------
\* WebSocketManager: connections
\* ------------------------------------------------------------------------
\* generateClientId() when Date.now() or Math.random() differ from those of
\* every earlier call: an id no other connection was given
generateClientId(c) == c

\* handleConnection up to its first await: the entry is stored and
\* sendInitialData issues getCurrentCounters()
handleConnection(c, id) ==
  /\ ws[c].readyState = "CONNECTING"
  /\ ws[c].pc = "none"
  /\ ws' = [ws EXCEPT ![c] = [@ EXCEPT !.readyState = "OPEN", !.pc = "init_counters",
                                       !.clientId = id, !.isAlive = TRUE]]
  /\ clients' = (id :> c) @@ clients
  /\ UNCHANGED <<storeVars, faults, http, msgsLeft, sweepsLeft, rateVars, schemaVars>>

\* sendInitialData: getCurrentCounters() resolved, sendCounterUpdate(ws) sends
\* the counts and sendStatistics(ws, '24 hours') issues its query
InitialCounters(c) ==
  /\ ws[c].pc = "init_counters"
  /\ ws' = [ws EXCEPT ![c] = [sendMessage(Enter(@), CounterUpdate(counters)) EXCEPT !.pc = "init_stats"]]
  /\ UNCHANGED <<storeVars, faults, http, clients, msgsLeft, sweepsLeft, rateVars, schemaVars>>

\* getCurrentCounters() returned success: false: nothing is sent
InitialCountersFail(c) ==
  /\ ws[c].pc = "init_counters"
  /\ faults > 0
  /\ faults' = faults - 1
  /\ ws' = [ws EXCEPT ![c].pc = "init_stats"]
  /\ UNCHANGED <<storeVars, http, clients, msgsLeft, sweepsLeft, rateVars, schemaVars>>

\* a handleConnection that ends without the confirmation
FinishUnconfirmed(w) == [w EXCEPT !.handlers = TRUE, !.pc = "ready"]

\* the rest of handleConnection once sendInitialData returned:
\* setupClientHandlers, then connection_confirmed
FinishConnection(w) ==
  [sendMessage([w EXCEPT !.handlers = TRUE], Msg("connection_confirmed")) EXCEPT !.pc = "ready"]

\* getCounterStatistics('24 hours') resolved with success
InitialStatistics(c) ==
  /\ ws[c].pc = "init_stats"
  /\ ws' = [ws EXCEPT ![c] = FinishConnection(sendMessage(Enter(@), Msg("statistics_update")))]
  /\ UNCHANGED <<storeVars, faults, http, clients, msgsLeft, sweepsLeft, rateVars, schemaVars>>

\* getCounterStatistics returned success: false
InitialStatisticsFail(c) ==
  /\ ws[c].pc = "init_stats"
  /\ faults > 0
  /\ faults' = faults - 1
  /\ ws' = [ws EXCEPT ![c] = FinishConnection(sendError(Enter(@)))]
  /\ UNCHANGED <<storeVars, http, clients, msgsLeft, sweepsLeft, rateVars, schemaVars>>

\* the 'close' event of a transport: the listener setupClientHandlers
\* attached, if it is attached yet, calls handleDisconnection(clientId)
OnClose(w, cl) == IF w.handlers THEN handleDisconnection(cl, w.clientId) ELSE cl

\* the client closes its connection
ClientCloses(c) ==
  /\ ws[c].readyState = "OPEN"
  /\ ws' = [ws EXCEPT ![c].readyState = "CLOSED"]
  /\ clients' = OnClose(ws[c], clients)
  /\ UNCHANGED <<storeVars, faults, http, msgsLeft, sweepsLeft, rateVars, schemaVars>>

\* the socket of a transport the server terminated is closed
SocketClosed(c) ==
  /\ ws[c].readyState = "CLOSING"
  /\ ws' = [ws EXCEPT ![c].readyState = "CLOSED"]
  /\ clients' = OnClose(ws[c], clients)
  /\ UNCHANGED <<storeVars, faults, http, msgsLeft, sweepsLeft, rateVars, schemaVars>>

\* the 'error' listener setupClientHandlers attached: it logs and calls
\* handleDisconnection(clientId); it does not touch the transport
OnError(w, cl) == handleDisconnection(cl, w.clientId)

\* the 'error' event of a transport whose listeners are attached; the
\* listener leaves the transport as the ws library leaves it: still open, or
\* closing (its 'close' event follows)
TransportError(c, closing) ==
  /\ ws[c].handlers
  /\ ws[c].nerr < MaxErrors
  /\ ws' = [ws EXCEPT ![c].nerr = @ + 1,
                      ![c].readyState = IF closing /\ @ = "OPEN" THEN "CLOSING" ELSE @]
  /\ clients' = OnError(ws[c], clients)
  /\ UNCHANGED <<storeVars, faults, http, msgsLeft, sweepsLeft, rateVars, schemaVars>>

\* ws.close(1001, 'Server shutdown') on a transport of wss.clients: the
\* closing handshake starts on an open transport; a transport no client has
\* connected yet is never accepted, since the server is closed
close(w) ==
  IF w.readyState = "OPEN" THEN [w EXCEPT !.readyState = "CLOSING"]
  ELSE IF w.readyState = "CONNECTING" THEN [w EXCEPT !.readyState = "CLOSED"]
  ELSE w

\* shutdown(): server_shutdown is sent to every entry of the registry, then
\* every transport of the server is closed, then the server
shutdown ==
  /\ \E c \in Conns : ws[c].readyState \in {"CONNECTING", "OPEN"}
  /\ ws' = [c \in Conns |->
        close(IF \E id \in DOMAIN clients : clients[id] = c
              THEN sendMessage(Enter(ws[c]), Msg("server_shutdown"))
              ELSE ws[c])]
  /\ UNCHANGED <<storeVars, faults, http, clients, msgsLeft, sweepsLeft, rateVars, schemaVars>>

\* ------------------------------------------------------------------------
\* WebSocketManager: inbound messages
\* ------------------------------------------------------------------------
\* handleClientMessage(ws, clientId, message) up to its first await
handleClientMessage(w, cl, m) ==
  IF w.clientId \notin DOMAIN cl THEN w
  ELSE CASE m = "ping" -> sendMessage(w, Msg("pong"))
         [] m \in {"get_counters", "get_stats"} -> [w EXCEPT !.pending[m] = @ + 1]
         [] m = "subscribe_updates" ->
              sendMessage([w EXCEPT !.subscribed = "true"], SubscriptionConfirmed(TRUE))
         [] m = "unsubscribe_updates" ->
              sendMessage([w EXCEPT !.subscribed = "false"], SubscriptionConfirmed(FALSE))
         [] OTHER -> sendError(w)

\* the 'message' listener: JSON.parse, then handleClientMessage; a parse
\* error is answered with sendError
OnMessage(w, cl, m) ==
  IF m = "garbage" THEN sendError(w) ELSE handleClientMessage(w, cl, m)

\* the 'message' event of a transport, for a message m a client sent on its
\* open connection; without a listener the message is lost
ReceiveMessage(c, m) ==
  /\ ws[c].readyState = "OPEN"
  /\ msgsLeft > 0
  /\ msgsLeft' = msgsLeft - 1
  /\ ws' = [ws EXCEPT ![c] =
        LET w == [@ EXCEPT !.message = m, !.nrecv = @ + 1]
        IN IF w.handlers THEN OnMessage(Enter(w), clients, m) ELSE w]
  /\ UNCHANGED <<storeVars, faults, http, clients, sweepsLeft, rateVars, schemaVars>>

\* the awaited read of a get_counters or get_stats request resolved with
\* success: sendCounterUpdate(ws) or sendStatistics(ws, timeRange) sends
Reply(c, kind) ==
  LET w == Enter([ws[c] EXCEPT !.pending[kind] = @ - 1]) IN
  /\ ws[c].pending[kind] > 0
  /\ ws' = [ws EXCEPT ![c] =
        IF kind = "get_counters" THEN sendMessage(w, CounterUpdate(counters))
        ELSE sendMessage(w, Msg("statistics_update"))]
  /\ UNCHANGED <<storeVars, faults, http, clients, msgsLeft, sweepsLeft, rateVars, schemaVars>>

\* the awaited read returned success: false: sendCounterUpdate sends nothing,
\* sendStatistics sends an error
ReplyFails(c, kind) ==
  LET w == Enter([ws[c] EXCEPT !.pending[kind] = @ - 1]) IN
  /\ ws[c].pending[kind] > 0
  /\ faults > 0
  /\ faults' = faults - 1
  /\ ws' = [ws EXCEPT ![c] = IF kind = "get_counters" THEN w ELSE sendError(w)]
  /\ UNCHANGED <<storeVars, http, clients, msgsLeft, sweepsLeft, rateVars, schemaVars>>

\* ------------------------------------------------------------------------
\* WebSocketManager: the periodic cleanup
\* ------------------------------------------------------------------------
\* a cleanup that collects no entry
NoneDisconnected(w, cl) == {}

\* the entries cleanupDisconnectedClients collects before its timers run:
\* those whose transport is not open
disconnectedClients(w, cl) == {id \in DOMAIN cl : w[cl[id]].readyState # "OPEN"}

\* cleanupDisconnectedClients(): entries with a transport that is not open
\* are deleted; every other entry is marked not alive, pinged, and given a
\* one-second timer
Sweep ==
  LET gone == disconnectedClients(ws, clients)
      probed == {clients[id] : id \in DOMAIN clients \ gone}
  IN
  /\ \A c \in Conns : ~ws[c].timer
  /\ ws' = [c \in Conns |-> IF c \in probed
                            THEN [ws[c] EXCEPT !.isAlive = FALSE, !.pinged = TRUE, !.timer = TRUE]
                            ELSE ws[c]]
  /\ clients' = [id \in DOMAIN clients \ gone |-> clients[id]]
  /\ UNCHANGED <<storeVars, faults, http, msgsLeft, rateVars, schemaVars>>

\* one of a bounded number of runs of the cleanup
cleanupDisconnectedClients ==
  /\ sweepsLeft > 0
  /\ sweepsLeft' = sweepsLeft - 1
  /\ Sweep

\* setInterval(() => this.cleanupDisconnectedClients(), 30000): the cleanup
\* runs again and again
cleanupInterval ==
  /\ Sweep
  /\ UNCHANGED sweepsLeft

\* the 'pong' event: the listener, if attached, marks the entry alive
Pong(c) ==
  /\ ws[c].pinged
  /\ ws[c].readyState = "OPEN"
  /\ ws' = [ws EXCEPT ![c].pinged = FALSE,
                      ![c].isAlive = IF ws[c].handlers /\ ws[c].clientId \in DOMAIN clients
                                     THEN TRUE ELSE @]
  /\ UNCHANGED <<storeVars, faults, http, clients, msgsLeft, sweepsLeft, rateVars, schemaVars>>

\* ws.terminate()
terminate(w) == IF w.readyState = "OPEN" THEN [w EXCEPT !.readyState = "CLOSING"] ELSE w

\* the timer callback of cleanupDisconnectedClients, one second after the
\* ping: a client still marked not alive is pushed on the list that was
\* already processed, and terminated
GraceTimeout(c) ==
  /\ ws[c].timer
  /\ ws' = [ws EXCEPT ![c] = IF ws[c].isAlive THEN [@ EXCEPT !.timer = FALSE]
                             ELSE terminate([@ EXCEPT !.timer = FALSE, !.pinged = FALSE])]
  /\ UNCHANGED <<storeVars, faults, http, clients, msgsLeft, sweepsLeft, rateVars, schemaVars>>

\* ------------------------------------------------------------------------
\* MigrationManager: migrate() and its statements, each one its own
\* implicit transaction
\* ------------------------------------------------------------------------
\* a list check that finds nothing
NeverIncludes(appliedMigrations, version) == FALSE

\* appliedMigrations.includes(migration.version)
includes(appliedMigrations, version) ==
  \E k \in 1..Len(appliedMigrations) : appliedMigrations[k] = version

\* the for loop of migrate() from index i up to its next await: the up() of
\* the first migration not in appliedMigrations, or the end of migrate()
Loop(r, i) ==
  LET pending == {j \in i..Len(Migrations) : ~includes(r.appliedMigrations, Migrations[j])}
  IN IF pending = {} THEN [r EXCEPT !.pc = "completed", !.i = Len(Migrations) + 1]
     ELSE [r EXCEPT !.pc = "up", !.i = CHOOSE j \in pending : \A k \in pending : j <= k]

\* migrate() is called, at a server start or by the init-db script
migrate(r) ==
  /\ runner[r].pc = "idle"
  /\ runner' = [runner EXCEPT ![r].pc = "create_migrations_table",
                              ![r].later = \E q \in Runs : runner[q].pc = "completed"]
  /\ UNCHANGED <<storeVars, faults, http, wsVars, rateVars, tables, migrationsTable>>

\* CREATE TABLE IF NOT EXISTS migrations
createMigrationsTable(r) ==
  /\ runner[r].pc = "create_migrations_table"
  /\ tables' = tables \cup {"migrations"}
  /\ runner' = [runner EXCEPT ![r].pc = "get_applied"]
  /\ UNCHANGED <<storeVars, faults, http, wsVars, rateVars, migrationsTable>>

\* SELECT version FROM migrations ORDER BY applied_at, then the loop up to
\* its first await
getAppliedMigrations(r) ==
  /\ runner[r].pc = "get_applied"
  /\ runner' = [runner EXCEPT ![r] = Loop([@ EXCEPT !.appliedMigrations = migrationsTable], 1)]
  /\ UNCHANGED <<storeVars, faults, http, wsVars, rateVars, tables, migrationsTable>>

\* migration.up.call(this): createCountersTable (CREATE TABLE IF NOT EXISTS
\* counters; INSERT ('red', 0), ('blue', 0) ON CONFLICT (color) DO NOTHING)
\* for 001, createCounterHistoryTable (CREATE TABLE IF NOT EXISTS
\* counter_history) for 002
up(r) ==
  LET version == Migrations[runner[r].i] IN
  /\ runner[r].pc = "up"
  /\ IF version = "001"
     THEN /\ tables' = tables \cup {"counters"}
          /\ counters' = IF "counters" \in tables THEN counters ELSE [c \in Colors |-> 0]
          /\ UNCHANGED history
     ELSE /\ tables' = tables \cup {"counter_history"}
          /\ history' = IF "counter_history" \in tables THEN history ELSE <<>>
          /\ UNCHANGED counters
  /\ runner' = [runner EXCEPT ![r].pc = "record", ![r].ran = @ + 1]
  /\ UNCHANGED <<rowLock, count0, faults, http, wsVars, rateVars, migrationsTable>>

\* INSERT INTO migrations (version, name): version is UNIQUE, so the
\* statement fails for a version already in the table and migrate() throws;
\* otherwise the loop goes on to its next await
recordMigration(r) ==
  LET version == Migrations[runner[r].i] IN
  /\ runner[r].pc = "record"
  /\ IF \E k \in 1..Len(migrationsTable) : migrationsTable[k] = version
     THEN /\ runner' = [runner EXCEPT ![r].pc = "failed"]
          /\ UNCHANGED migrationsTable
     ELSE /\ migrationsTable' = Append(migrationsTable, version)
          /\ runner' = [runner EXCEPT ![r] = Loop(@, runner[r].i + 1)]
  /\ UNCHANGED <<storeVars, faults, http, wsVars, rateVars, tables>>

\* a statement of migrate() fails and changes nothing: the catch block
\* rethrows and the caller exits
MigrationQueryFails(r) ==
  /\ runner[r].pc \in {"create_migrations_table", "get_applied", "up", "record"}
  /\ faults > 0
  /\ faults' = faults - 1
  /\ runner' = [runner EXCEPT ![r].pc = "failed"]
  /\ UNCHANGED <<storeVars, http, wsVars, rateVars, tables, migrationsTable>>

\* ------------------------------------------------------------------------
\* Specification of the HTTP handlers over the store
\* ------------------------------------------------------------------------
Orders == {<<"blue", "red">>, <<"red", "blue">>}

Transaction(p) ==
  \/ beginTransaction(p)
  \/ SelectForUpdate(p)
  \/ UpdateCounter(p)
  \/ \E order \in Orders : SelectAll(p, order)
  \/ UpdateAll(p)
  \/ InsertResetHistory(p)
  \/ commitTransaction(p)
  \/ rollbackTransaction(p)

StorageFailure(p) ==
  \/ \E connected \in BOOLEAN : beginTransactionFails(p, connected)
  \/ QueryFails(p)
  \/ commitTransactionFails(p)
  \/ BroadcastReadFails(p)

Next ==
  \/ \E p \in Reqs, color \in Colors, body \in SomeAmounts : incrementColor(p, color, body)
  \/ \E p \in Reqs, n \in 0..MaxBatch : batchIncrement(p, n)
  \/ \E p \in Reqs, color \in SomeColors, amount \in SomeAmounts : BatchItem(p, color, amount)
  \/ \E p \in Reqs : resetCounters(p)
  \/ \E p \in Reqs : Transaction(p)
  \/ \E p \in Reqs : StorageFailure(p)
  \/ \E p \in Reqs : BroadcastRead(p)
  \/ \E p \in Reqs : BroadcastSend(p)

Spec == Init /\ [][Next]_vars

\* ------------------------------------------------------------------------
\* Specification of one request at a time over every input of the service
\* ------------------------------------------------------------------------
NextInputs ==
  \/ \E color \in Colors, body \in AmountInputs : incrementColor(1, color, body)
  \/ \E n \in 0..MaxBatch : batchIncrement(1, n)
  \/ \E color \in ColorInputs, amount \in AmountInputs : BatchItem(1, color, amount)
  \/ beginTransaction(1)
  \/ SelectForUpdate(1)
  \/ UpdateCounter(1)
  \/ commitTransaction(1)
  \/ rollbackTransaction(1)
  \/ BroadcastRead(1)
  \/ BroadcastSend(1)
  \/ resetCounters(1)
  \/ \E order \in Orders : SelectAll(1, order)
  \/ UpdateAll(1)
  \/ InsertResetHistory(1)
  \/ StorageFailure(1)
  \/ rollbackTransactionFails(1)

SpecInputs == Init /\ [][NextInputs]_vars

\* The repository's increment on its own: one direct call with every color
\* and amount, and the storage failures of its transaction.
StoreAmounts == {Undefined, Num(-1), Num(0), Num(1)}

NextStore ==
  \/ \E color \in ColorInputs, amount \in StoreAmounts : repositoryIncrement(1, color, amount)
  \/ beginTransaction(1)
  \/ \E connected \in BOOLEAN : beginTransactionFails(1, connected)
  \/ SelectForUpdate(1)
  \/ UpdateCounter(1)
  \/ QueryFails(1)
  \/ commitTransaction(1)
  \/ commitTransactionFails(1)
  \/ rollbackTransaction(1)

SpecStore == Init /\ [][NextStore]_vars

\* ------------------------------------------------------------------------
\* Specification of a history request beside a reset
\* ------------------------------------------------------------------------
NextHistory ==
  \/ \E color \in ColorInputs, qlimit \in LimitInputs, qoffset \in OffsetInputs :
       getHistory(2, color, qlimit, qoffset)
  \/ \E order \in RowOrders(2) \cup RowOrders(1) \cup RowOrders(0) :
       HistoryRows(2, order)
  \/ HistoryCount(2)
  \/ HistoryQueryFails(2)
  \/ resetCounters(1)
  \/ beginTransaction(1)
  \/ \E order \in Orders : SelectAll(1, order)
  \/ UpdateAll(1)
  \/ InsertResetHistory(1)
  \/ commitTransaction(1)
  \/ BroadcastRead(1)
  \/ BroadcastSend(1)

SpecHistory == Init /\ [][NextHistory]_vars

\* ------------------------------------------------------------------------
\* Specification of statistics requests over a history of earlier resets
\* ------------------------------------------------------------------------
\* the two rows a reset inserted `ago` hours before now over the counts prev
PastReset(ago, prev) ==
  [i \in 1..2 |->
     LET c == IF i = 1 THEN "blue" ELSE "red"
     IN [color |-> c, previous_count |-> prev[c], new_count |-> 0,
         increment_amount |-> 0 - prev[c], timestamp |-> 0 - ago]]

\* no reset, or one reset over some counts, at a time `ago` hours before now
PastResets(ago) ==
  {<<>>} \cup {PastReset(ago, prev) : prev \in [Colors -> 0..MaxInitCount]}

InitStats ==
  /\ ws = [c \in Conns |-> NoConn]
  /\ clients = NoClients
  /\ msgsLeft = MaxClientMsgs
  /\ sweepsLeft = MaxSweeps
  /\ count0 \in [Colors -> 0..MaxInitCount]
  /\ counters = count0
  /\ \E old \in PastResets(48), new \in PastResets(2) : history = old \o new
  /\ rowLock = [c \in Colors |-> {}]
  /\ faults = MaxFaults
  /\ http = [p \in Reqs |-> IdleReq]
  /\ now = 0
  /\ requests = NoRequests
  /\ admitted = NoneAdmitted
  /\ tables = AllTables
  /\ migrationsTable = Migrations
  /\ runner = [r \in Runs |-> IdleRun]

NextStats ==
  \/ \E p \in Reqs, q \in TimeRangeInputs : getStatistics(p, q)
  \/ \E p \in Reqs : StatsQuery(p)
  \/ \E p \in Reqs : StatsQueryFails(p)

SpecStats == InitStats /\ [][NextStats]_vars

\* ------------------------------------------------------------------------
\* Specification of health requests against a database that may fail
\* ------------------------------------------------------------------------
NextHealth ==
  \/ \E p \in Reqs : healthCheck(p)
  \/ \E p \in Reqs, ok \in BOOLEAN : HealthProbe(p, ok)
  \/ \E p \in Reqs, ok \in BOOLEAN : HealthCounters(p, ok)

SpecHealth == Init /\ [][NextHealth]_vars

\* ------------------------------------------------------------------------
\* Specification of the WebSocket connections and their messages beside
\* increment requests
\* ------------------------------------------------------------------------
WsReqs == 1..NumWsReqs
RequestKinds == {"get_counters", "get_stats"}

Increment(p) ==
  \/ \E color \in Colors : incrementColor(p, color, Undefined)
  \/ beginTransaction(p)
  \/ SelectForUpdate(p)
  \/ UpdateCounter(p)
  \/ commitTransaction(p)
  \/ BroadcastRead(p)
  \/ BroadcastSend(p)

Accept(c) ==
  \/ handleConnection(c, generateClientId(c))
  \/ InitialCounters(c)
  \/ InitialCountersFail(c)
  \/ InitialStatistics(c)
  \/ InitialStatisticsFail(c)

InitWS == Init /\ count0 = [c \in Colors |-> 0]

NextWS ==
  \/ \E p \in WsReqs : Increment(p)
  \/ \E c \in Conns : Accept(c)
  \/ \E c \in Conns : ClientCloses(c)
  \/ \E c \in Conns, m \in ClientMessages : ReceiveMessage(c, m)
  \/ \E c \in Conns, kind \in RequestKinds : Reply(c, kind)
  \/ \E c \in Conns, kind \in RequestKinds : ReplyFails(c, kind)

SpecWS == InitWS /\ [][NextWS]_vars

\* ------------------------------------------------------------------------
\* Specification of the periodic cleanup of the connections beside
\* increment requests
\* ------------------------------------------------------------------------
NextSweep ==
  \/ \E p \in WsReqs : Increment(p)
  \/ \E c \in Conns : Accept(c)
  \/ \E c \in Conns : ClientCloses(c)
  \/ \E c \in Conns : SocketClosed(c)
  \/ cleanupDisconnectedClients
  \/ \E c \in Conns : Pong(c)
  \/ \E c \in Conns : GraceTimeout(c)

SpecSweep == InitWS /\ [][NextSweep]_vars

\* ------------------------------------------------------------------------
\* Specification of the 'close' and 'error' events of the connections
\* ------------------------------------------------------------------------
NextTransport ==
  \/ \E c \in Conns : Accept(c)
  \/ \E c \in Conns : ClientCloses(c)
  \/ \E c \in Conns : SocketClosed(c)
  \/ \E c \in Conns, closing \in BOOLEAN : TransportError(c, closing)

SpecTransport == InitWS /\ [][NextTransport]_vars

\* ------------------------------------------------------------------------
\* Specification of the graceful shutdown beside the events of the
\* connections
\* ------------------------------------------------------------------------
NextShutdown ==
  \/ \E c \in Conns : Accept(c)
  \/ \E c \in Conns : ClientCloses(c)
  \/ \E c \in Conns : SocketClosed(c)
  \/ \E c \in Conns, closing \in BOOLEAN : TransportError(c, closing)
  \/ shutdown

SpecShutdown == InitWS /\ [][NextShutdown]_vars

\* ------------------------------------------------------------------------
\* Specification of concurrent increment requests and their broadcasts to
\* one connection
\* ------------------------------------------------------------------------
NextConcurrent ==
  \/ \E p \in Reqs : Increment(p)
  \/ Accept(1)

SpecConcurrent == InitWS /\ [][NextConcurrent]_vars

\* ------------------------------------------------------------------------
\* Specification of reset requests behind the rate limit of the route
\* ------------------------------------------------------------------------
NextRate ==
  \/ \E ip \in ClientIps : postReset(1, ip)
  \/ \E d \in {1, adminWindowMs} : Advance(d)
  \/ beginTransaction(1)
  \/ SelectAll(1, <<"blue", "red">>)
  \/ UpdateAll(1)
  \/ InsertResetHistory(1)
  \/ commitTransaction(1)
  \/ BroadcastRead(1)
  \/ BroadcastSend(1)

SpecRate == Init /\ [][NextRate]_vars

\* ------------------------------------------------------------------------
\* Specification of connections accepted under any id generateClientId can
\* return: the same millisecond and the same random digits give the same id
\* ------------------------------------------------------------------------
NextIds ==
  \/ \E c \in Conns, id \in Conns : handleConnection(c, id)
  \/ \E c \in Conns : InitialCounters(c)
  \/ \E c \in Conns : InitialCountersFail(c)
  \/ \E c \in Conns : InitialStatistics(c)
  \/ \E c \in Conns : InitialStatisticsFail(c)
  \/ \E c \in Conns : ClientCloses(c)

SpecIds == InitWS /\ [][NextIds]_vars

\* ------------------------------------------------------------------------
\* Specification of the cleanup that runs forever: the interval timer and
\* the one-second timers of a cleanup always fire
\* ------------------------------------------------------------------------
NextInterval ==
  \/ \E c \in Conns : Accept(c)
  \/ \E c \in Conns : ClientCloses(c)
  \/ \E c \in Conns : SocketClosed(c)
  \/ cleanupInterval
  \/ \E c \in Conns : Pong(c)
  \/ \E c \in Conns : GraceTimeout(c)

SpecInterval ==
  /\ InitWS
  /\ [][NextInterval]_vars
  /\ WF_vars(cleanupInterval)
  /\ \A c \in Conns : WF_vars(GraceTimeout(c))

\* ------------------------------------------------------------------------
\* Specification of broadcasts to connections whose send throws
\* ------------------------------------------------------------------------
NextThrow ==
  \/ \E p \in WsReqs : Increment(p)
  \/ \E c \in Conns : Accept(c)
  \/ \E c \in Conns : ClientCloses(c)
  \/ \E c \in Conns : SendBreaks(c)

SpecThrow == InitWS /\ [][NextThrow]_vars

\* ------------------------------------------------------------------------
\* Specification of the migrations: calls of migrate() on a database that
\* starts empty, and one increment request once a server is listening
\* ------------------------------------------------------------------------
InitMigrate ==
  /\ ws = [c \in Conns |-> NoConn]
  /\ clients = NoClients
  /\ msgsLeft = MaxClientMsgs
  /\ sweepsLeft = MaxSweeps
  /\ count0 = [c \in Colors |-> 0]
  /\ counters = count0
  /\ history = <<>>
  /\ rowLock = [c \in Colors |-> {}]
  /\ faults = MaxFaults
  /\ http = [p \in Reqs |-> IdleReq]
  /\ now = 0
  /\ requests = NoRequests
  /\ admitted = NoneAdmitted
  /\ tables = {}
  /\ migrationsTable = <<>>
  /\ runner = [r \in Runs |-> IdleRun]

NextMigrate ==
  \/ \E r \in Runs : migrate(r)
  \/ \E r \in Runs : createMigrationsTable(r)
  \/ \E r \in Runs : getAppliedMigrations(r)
  \/ \E r \in Runs : up(r)
  \/ \E r \in Runs : recordMigration(r)
  \/ \E r \in Runs : MigrationQueryFails(r)
  \/ ((\E r \in Runs : runner[r].pc = "completed") /\ Increment(1))

SpecMigrate == InitMigrate /\ [][NextMigrate]_vars

\* ========================================================================
\* Properties
\* ========================================================================
RECURSIVE SumIncrements(_, _)
\* the sum of incrementBy over the entries of results for color
SumIncrements(results, color) ==
  IF results = <<>> THEN 0
  ELSE (IF Head(results).color = color THEN Head(results).incrementBy ELSE 0)
       + SumIncrements(Tail(results), color)

RECURSIVE SumOver(_, _)
\* the sum of the successful increments of color over the requests of S
SumOver(S, color) ==
  IF S = {} THEN 0
  ELSE LET p == CHOOSE q \in S : TRUE
       IN SumIncrements(http[p].successful, color) + SumOver(S \ {p}, color)

CountFor(entries, color) == Len(SelectSeq(entries, LAMBDA e : e.color = color))

ResetCommitted == \E p \in Reqs : http[p].kind = "reset" /\ http[p].success

AllDone == \A p \in Reqs : http[p].pc = "done"

TxPcs == {"begin", "select", "update", "commit", "rollback",
          "select_all", "update_all", "insert"}

\* C1: no lost updates: as long as no reset has committed, the stored count
\* of every color is its initial count plus the amounts of all increments of
\* that color that have committed, whatever the interleaving of the
\* transactions' statements
C1_NoLostUpdates ==
  ~ResetCommitted =>
    \A color \in Colors : counters[color] = count0[color] + SumOver(Reqs, color)

\* C1 witness: every request has finished and each of them incremented the
\* same color successfully
C1_TwoIncrementsCommitted ==
  /\ AllDone
  /\ \E color \in Colors : \A p \in Reqs : CountFor(http[p].successful, color) > 0

RECURSIVE SucceededOver(_, _)
\* the number of successful increments of color over the requests of S
SucceededOver(S, color) ==
  IF S = {} THEN 0
  ELSE LET p == CHOOSE q \in S : TRUE
       IN CountFor(http[p].successful, color) + SucceededOver(S \ {p}, color)

\* C2: every successful increment appends exactly one history entry of its
\* color, so with no reset the history holds exactly as many entries of a
\* color as increments of that color succeeded
C2_HistoryEntryPerIncrement ==
  ~ResetCommitted =>
    \A color \in Colors : CountFor(history, color) = SucceededOver(Reqs, color)

\* C3: a mutation request that committed a change to at least one counter
\* has invoked broadcastCounterUpdate exactly once by the time it is answered
C3_BroadcastPerMutation ==
  \A p \in Reqs :
    (/\ http[p].pc = "done"
     /\ \/ Len(http[p].successful) > 0
        \/ (http[p].kind = "reset" /\ http[p].success))
      => http[p].broadcasts = 1

\* a step of request p that belongs to its reset
ResetStep(p) == http[p].kind = "reset" /\ http'[p] # http[p]

\* C7: reset is all-or-nothing: the step of a reset that makes it succeed
\* leaves every counter at 0 and appends the history entries it wrote; every
\* other step of a reset, the failure of a statement and the rollback
\* included, leaves the counters and the history as they are, and a reset
\* that ends without success is answered as a failure
C7_ResetAllOrNothing ==
  [][\A p \in Reqs :
       ResetStep(p) =>
         IF ~http[p].success /\ http'[p].success
         THEN /\ \A c \in Colors : counters'[c] = 0
              /\ history' = history \o http[p].inserts
         ELSE /\ counters' = counters
              /\ history' = history
              /\ (http'[p].pc = "done" /\ ~http'[p].success
                    => http'[p].status = 500)]_vars

\* C7 witness: a reset whose UPDATE has run is being rolled back while a
\* counter is not 0
C7_ResetRollsBack ==
  \E p \in Reqs :
    /\ http[p].kind = "reset"
    /\ http[p].pc = "rollback"
    /\ DOMAIN http[p].writes = Colors
    /\ \E c \in Colors : counters[c] > 0

\* the color of the service call of request p is in a transaction
InTransaction(p) == http[p].pc \in TxPcs /\ http[p].kind # "reset"

\* C9: for a color other than exactly 'red' or 'blue' no storage operation
\* is started, and the call fails with the invalid-color error
C9_InvalidColorRejected ==
  \A p \in Reqs :
    /\ InTransaction(p) => http[p].color \in {"red", "blue"}
    /\ \A i \in 1..Len(http[p].failed) :
         http[p].failed[i].color \notin {"red", "blue"}
           => http[p].failed[i].error = InvalidColorError

\* a service call of request p is made in this step
ServiceCall(p) ==
  /\ http[p].pc \in {"idle", "batch"}
  /\ http'[p].pc # http[p].pc \/ http'[p].remaining # http[p].remaining
  /\ http'[p].kind \in {"red", "blue"} \/ http[p].pc = "batch"

\* an incrementBy that is not a positive integer
NotPositiveInteger(a) == a.t # "int" \/ a.n <= 0

\* C10: a service call on color red or blue with an incrementBy that is not
\* a positive integer fails with the amount validation error, starts no
\* transaction and changes no counter
C10_InvalidAmountRejected ==
  [][\A p \in Reqs :
       (/\ ServiceCall(p)
        /\ http'[p].color \in {"red", "blue"}
        /\ NotPositiveInteger(http'[p].incrementBy))
       => /\ http'[p].txStarted = http[p].txStarted
          /\ http'[p].pc \notin TxPcs
          /\ counters' = counters
          /\ http'[p].successful = http[p].successful
          /\ IF http[p].pc = "batch"
             THEN http'[p].failed = Append(http[p].failed,
                    [color |-> http'[p].color, error |-> InvalidAmountError])
             ELSE /\ http'[p].error = InvalidAmountError
                  /\ ~http'[p].success
                  /\ http'[p].status = 400]_vars

\* C10 witness: a batch item of a valid color with incrementBy 0 has been
\* rejected with the amount error
C10_ZeroRejected ==
  \E p \in Reqs :
    /\ http[p].kind = "batch"
    /\ http[p].color \in {"red", "blue"}
    /\ http[p].incrementBy = Num(0)
    /\ Len(http[p].failed) > 0
    /\ http[p].failed[Len(http[p].failed)].error = InvalidAmountError

\* ------------------------------------------------------------------------
\* Properties of the WebSocket connections
\* ------------------------------------------------------------------------
\* the step in which connection c leaves the state `from` of its accept
AcceptStep(c, from) == ws[c].pc = from /\ ws'[c].pc # from

\* the number of messages the step writes to connection c
Written(c) == ws'[c].nsent - ws[c].nsent

\* the step reads the store without a failure
ReadSucceeds == faults' = faults

BroadcastStep(p) == http[p].pc = "bcast_send" /\ http'[p].pc = "done"

\* connection c has an entry in the registry
Registered(c) == \E id \in DOMAIN clients : clients[id] = c

\* C5: a broadcast writes nothing to a connection whose flag is false and
\* writes its counter_update to a connection whose flag is true while its
\* transport is open; the flag of a connection changes only in the dispatch
\* of its own subscribe_updates or unsubscribe_updates, which confirms the
\* new flag and leaves every other connection and the registry as they are
C5_SubscriptionControlsDelivery ==
  [][\A c \in Conns :
       /\ \A p \in WsReqs :
            BroadcastStep(p) =>
              /\ ws[c].subscribed = "false" => ws'[c] = ws[c]
              /\ (ws[c].subscribed = "true" /\ ws[c].readyState = "OPEN") =>
                   /\ Written(c) = 1
                   /\ ws'[c].sent = <<CounterUpdate(http[p].snapshot)>>
       /\ ws'[c].subscribed # ws[c].subscribed =>
            /\ ws'[c].subscribed \in {"true", "false"}
            /\ Written(c) = 1
            /\ ws'[c].sent = <<SubscriptionConfirmed(ws'[c].subscribed = "true")>>
            /\ \A d \in Conns \ {c} : ws'[d] = ws[d]
            /\ clients' = clients]_vars

\* C5 witness: the only message of a client so far was the unsubscribe_updates
\* of c, nothing was written to c since its confirmation, and a request's
\* broadcast has delivered the counts to another connection
C5_UnsubscribedSkipped ==
  \E c, d \in Conns :
    /\ c # d
    /\ msgsLeft = MaxClientMsgs - 1
    /\ ws[c].subscribed = "false"
    /\ ws[c].readyState = "OPEN"
    /\ ws[c].sent = <<SubscriptionConfirmed(FALSE)>>
    /\ ws[d].pc = "ready"
    /\ ws[d].sent = <<CounterUpdate(counters)>>
    /\ \E p \in WsReqs : http[p].pc = "done" /\ http[p].status = 200

\* the registry entry of c passes the filter and its transport is open
Eligible(c) ==
  Registered(c) /\ ws[c].subscribed # "false" /\ ws[c].readyState = "OPEN"

\* C6: a broadcast writes its counter_update exactly once to every registry
\* entry that is subscribed and has an open transport, leaves every other
\* connection and the registry untouched, and the request is answered
\* without an error
C6_BroadcastRecipients ==
  [][\A p \in WsReqs :
       BroadcastStep(p) =>
         /\ \A c \in Conns :
              IF Eligible(c)
              THEN /\ Written(c) = 1
                   /\ ws'[c].sent = <<CounterUpdate(http[p].snapshot)>>
                   /\ ws'[c] = [ws[c] EXCEPT !.sent = ws'[c].sent, !.nsent = @ + 1]
              ELSE ws'[c] = ws[c]
         /\ clients' = clients
         /\ http'[p].status = 200]_vars

\* C6 witness: no client has sent a message, a registry entry has a closed
\* transport to which nothing was ever written, and a request's broadcast
\* has delivered the counts to an accepted connection
C6_ClosedEntrySkipped ==
  \E c, d \in Conns :
    /\ msgsLeft = MaxClientMsgs
    /\ Registered(c)
    /\ ws[c].readyState = "CLOSED"
    /\ ws[c].nsent = 0
    /\ ws[d].pc = "ready"
    /\ ws[d].sent = <<CounterUpdate(counters)>>
    /\ \E p \in WsReqs : http[p].pc = "done" /\ http[p].status = 200

\* C8: when the grace timer of a connection that did not acknowledge the
\* ping fires, the connection is terminated and its entry is no longer in
\* the registry
C8_UnresponsiveRemoved ==
  [][\A c \in Conns :
       (ws[c].timer /\ ~ws'[c].timer /\ ~ws[c].isAlive /\ ws[c].readyState = "OPEN")
         => /\ ws'[c].readyState # "OPEN"
            /\ ws[c].clientId \notin DOMAIN clients']_vars

\* ------------------------------------------------------------------------
\* Properties of the inbound messages and of the transport events
\* ------------------------------------------------------------------------
\* a message arrives on connection c in this step
ReceiveStep(c) == ws'[c].nrecv = ws[c].nrecv + 1

\* a payload JSON.parse rejects, or a message of a type the server does not know
Malformed == {"garbage", "unknown"}

\* C11: a message that is not parseable JSON or has an unrecognized type is
\* answered with one error message to its sender and has no other effect:
\* the transport stays open, the registry, the sender's subscribed flag and
\* every other connection are unchanged
C11_MalformedAnswered ==
  [][\A c \in Conns :
       (ReceiveStep(c) /\ ws'[c].message \in Malformed) =>
         /\ ws'[c] = [ws[c] EXCEPT !.message = ws'[c].message, !.nrecv = @ + 1,
                                   !.sent = <<Msg("error")>>, !.nsent = @ + 1]
         /\ ws'[c].readyState = "OPEN"
         /\ \A d \in Conns \ {c} : ws'[d] = ws[d]
         /\ clients' = clients]_vars

\* an 'error' event is emitted on connection c in this step
ErrorStep(c) == ws'[c].nerr = ws[c].nerr + 1

\* the 'close' event is emitted on connection c in this step
CloseStep(c) == ws[c].readyState # "CLOSED" /\ ws'[c].readyState = "CLOSED"

\* the registry without the entry of id
Without(cl, id) == [i \in DOMAIN cl \ {id} |-> cl[i]]

\* C12: every 'error' or 'close' event of a connection whose listeners are
\* attached removes the entry of that connection's id if there is one and
\* changes nothing if there is none; the entries of all other ids stay as
\* they are, so over any sequence of such events one entry is removed
C12_DeregistrationIdempotent ==
  [][\A c \in Conns :
       ((ErrorStep(c) \/ CloseStep(c)) /\ ws[c].handlers) =>
         /\ clients' = Without(clients, ws[c].clientId)
         /\ (ws[c].clientId \notin DOMAIN clients => clients' = clients)
         /\ Cardinality(DOMAIN clients) - Cardinality(DOMAIN clients') =
              (IF ws[c].clientId \in DOMAIN clients THEN 1 ELSE 0)]_vars

\* C12 witness: a connection has seen 'error' events and its 'close' event,
\* its entry is gone and the entry of another connection is still there
C12_ErrorAndClose ==
  \E c, d \in Conns :
    /\ c # d
    /\ ws[c].nerr = MaxErrors
    /\ ws[c].handlers
    /\ ws[c].readyState = "CLOSED"
    /\ ws[c].clientId \notin DOMAIN clients
    /\ ws[d].clientId \in DOMAIN clients
    /\ clients[ws[d].clientId] = d

\* C13: an 'error' event of a registered connection removes its entry and
\* closes its transport, so the event leaves no connection that has an open
\* transport and no entry in the registry
C13_ErrorForceCloses ==
  [][\A c \in Conns :
       (ErrorStep(c) /\ ws[c].clientId \in DOMAIN clients) =>
         /\ ws[c].clientId \notin DOMAIN clients'
         /\ ws'[c].readyState # "OPEN"
         /\ \A d \in Conns :
              (ws'[d].pc # "none" /\ ws'[d].readyState = "OPEN") =>
                 ws'[d].clientId \in DOMAIN clients']_vars

\* ------------------------------------------------------------------------
\* Properties of the service results
\* ------------------------------------------------------------------------
ServiceErrors == {InvalidColorError, InvalidAmountError, StorageError}

InFlight(p) == IF http[p].pc \in TxPcs THEN 1 ELSE 0

\* the number of items of the batch of request p with a reported outcome
Reported(p) == Len(http[p].successful) + Len(http[p].failed)

\* C15: a batch is processed one item at a time: at every moment the items
\* reported in successful and failed, the item being processed and the items
\* still to come add up to the length of the list; each item's outcome is
\* appended to exactly one of the two lists under the item's color; and the
\* returned success flag is true exactly when no item failed
C15_BatchPartition ==
  /\ [](\A p \in Reqs :
          (http[p].kind = "batch" /\ http[p].total > 0) =>
            /\ Reported(p) + InFlight(p) + http[p].remaining = http[p].total
            /\ http[p].pc \in {"done", "bcast_read", "bcast_send"} =>
                 /\ Reported(p) = http[p].total
                 /\ http[p].success = (Len(http[p].failed) = 0))
  /\ [][\A p \in Reqs :
          (http[p].kind = "batch" /\ Reported(p)' # Reported(p)) =>
            \/ /\ http'[p].failed = http[p].failed
               /\ Len(http'[p].successful) = Len(http[p].successful) + 1
               /\ SubSeq(http'[p].successful, 1, Len(http[p].successful)) = http[p].successful
               /\ http'[p].successful[Len(http'[p].successful)].color = http'[p].color
            \/ /\ http'[p].successful = http[p].successful
               /\ Len(http'[p].failed) = Len(http[p].failed) + 1
               /\ SubSeq(http'[p].failed, 1, Len(http[p].failed)) = http[p].failed
               /\ http'[p].failed[Len(http'[p].failed)].color = http'[p].color]_vars

\* C15 witness: a batch of two items has returned with one item in each list
C15_MixedBatchReturned ==
  \E p \in Reqs :
    /\ http[p].kind = "batch"
    /\ http[p].pc = "done"
    /\ http[p].total = 2
    /\ Len(http[p].successful) = 1
    /\ Len(http[p].failed) = 1
    /\ ~http[p].success

\* ------------------------------------------------------------------------
\* Properties of the stored rows
\* ------------------------------------------------------------------------
\* C16: in every reachable state the counters table holds one row for red
\* and one for blue and nothing else, and each count is a non-negative integer
C16_CounterRows ==
  /\ DOMAIN counters = {"red", "blue"}
  /\ \A c \in DOMAIN counters : counters[c] \in Nat

\* C16 witness: a negative increment was rejected, another request's
\* increment was committed and a counter is above its initial count
C16_NegativeRejected ==
  \E p, q \in Reqs :
    /\ p # q
    /\ http[p].pc = "done"
    /\ http[p].incrementBy = Num(-1)
    /\ http[p].error = InvalidAmountError
    /\ Len(http[q].successful) > 0
    /\ \E c \in Colors : counters[c] > count0[c]

\* C17: every history entry satisfies
\* new_count = previous_count + increment_amount, and the history only
\* grows: every step leaves the entries written so far in place, unchanged
C17_HistoryAppendOnly ==
  /\ [](\A i \in 1..Len(history) :
          history[i].new_count = history[i].previous_count + history[i].increment_amount)
  /\ [][/\ Len(history') >= Len(history)
        /\ SubSeq(history', 1, Len(history)) = history]_vars

\* C17 witness: the history holds an entry that records a count above 0,
\* and a later request was answered after the entry was written
C17_EntryKept ==
  /\ \E i \in 1..Len(history) : history[i].previous_count > 0
  /\ \E p \in Reqs : http[p].pc = "done" /\ http[p].kind # "reset"
  /\ \E p \in Reqs : http[p].pc = "done" /\ http[p].kind = "reset" /\ http[p].success

\* the step in which the reset of request p commits
ResetCommitStep(p) == http[p].kind = "reset" /\ ~http[p].success /\ http'[p].success

\* the entries the step appends to the history
Appended == SubSeq(history', Len(history) + 1, Len(history'))

\* the history entry of a reset for a color whose count was n
ResetEntry(c, n) ==
  [color |-> c, previous_count |-> n, new_count |-> 0, increment_amount |-> 0 - n]

\* C18: without concurrent requests, a successful reset appends exactly one
\* history entry for each color, also for a color whose count was 0, with
\* previous_count the count before the reset, new_count 0 and
\* increment_amount = -previous_count
C18_ResetEntryPerColor ==
  [][\A p \in Reqs :
       ResetCommitStep(p) =>
         /\ Len(Appended) = Cardinality(Colors)
         /\ SubSeq(history', 1, Len(history)) = history
         /\ \A c \in Colors :
              \E i \in 1..Len(Appended) : Appended[i] = ResetEntry(c, counters[c])]_vars

\* C18 witness: a reset of a counter at 0 and a counter above 0 has committed
\* and the history holds an entry for each of them
C18_BothColorsRecorded ==
  /\ \E p \in Reqs : http[p].kind = "reset" /\ http[p].success
  /\ Len(history) = 2
  /\ \E i, j \in 1..Len(history) :
       /\ history[i].previous_count = 0
       /\ history[j].previous_count > 0
       /\ history[i].color # history[j].color

\* C19 as stated: a successful reset appends no history entry for a counter
\* that was 0 before the reset
C19_NoEntryForZero ==
  [][\A p \in Reqs :
       ResetCommitStep(p) =>
         \A i \in 1..Len(Appended) : counters[Appended[i].color] # 0]_vars

\* C19: without concurrent requests, a successful reset appends a history
\* entry also for a counter that was already 0: exactly one, with
\* previous_count 0, new_count 0 and increment_amount 0
C19_EntryForZero ==
  [][\A p \in Reqs :
       ResetCommitStep(p) =>
         \A c \in Colors :
           counters[c] = 0 =>
             Cardinality({i \in 1..Len(Appended) :
                            Appended[i] = ResetEntry(c, 0)}) = 1]_vars

\* C19 witness: a reset has committed when every counter was already 0 and
\* the history holds the entries of that reset
C19_ZeroResetRecorded ==
  /\ \E p \in Reqs : http[p].kind = "reset" /\ http[p].success
  /\ \A c \in Colors : count0[c] = 0
  /\ Len(history) = Cardinality(Colors)
  /\ \A i \in 1..Len(history) : history[i].increment_amount = 0

\* C20: under every interleaving of a reset with increments, the
\* previous_count of each entry the reset appends is the count its color
\* held immediately before the reset set it to 0
C20_ResetRecordsActualCount ==
  [][\A p \in Reqs :
       ResetCommitStep(p) =>
         \A i \in 1..Len(Appended) :
           Appended[i].previous_count = counters[Appended[i].color]]_vars

\* ------------------------------------------------------------------------
\* C21: the repository's increment itself fails for every amount below 1 and
\* for every unknown color, and leaves the counters as they were
\* ------------------------------------------------------------------------
DirectCall(p) == http[p].kind = "store" /\ http[p].pc = "done"

\* C21: a direct call of the repository's increment with an amount below 1
\* or a color without a row ends in failure with the counters unchanged
C21_StoreRejects ==
  \A p \in Reqs :
    (DirectCall(p) /\ (http[p].incrementBy.n < 1 \/ http[p].color \notin Colors)) =>
      ~http[p].success /\ counters = count0

\* ------------------------------------------------------------------------
\* C22: a dispatched request is answered to its sender only
\* ------------------------------------------------------------------------
\* the awaited read of a get_counters or get_stats request of c resolves
ReplyStep(c, kind) == ws'[c].pending[kind] = ws[c].pending[kind] - 1

\* C22: on a registered open connection a ping is answered by one pong,
\* get_counters by one counter_update, get_stats by one statistics_update or
\* one error, subscribe_updates and unsubscribe_updates set the flag and are
\* answered by one subscription_confirmed with the new flag; no other
\* connection is written to
C22_AnsweredToSenderOnly ==
  [][\A c \in Conns :
       /\ (ReceiveStep(c) /\ ws[c].handlers /\ Registered(c)) =>
            /\ \A d \in Conns \ {c} : ws'[d] = ws[d]
            /\ CASE ws'[c].message = "ping" -> ws'[c].sent = <<Msg("pong")>>
                 [] ws'[c].message = "subscribe_updates" ->
                      /\ ws'[c].subscribed = "true"
                      /\ ws'[c].sent = <<SubscriptionConfirmed(TRUE)>>
                 [] ws'[c].message = "unsubscribe_updates" ->
                      /\ ws'[c].subscribed = "false"
                      /\ ws'[c].sent = <<SubscriptionConfirmed(FALSE)>>
                 [] ws'[c].message \in RequestKinds ->
                      /\ ws'[c].pending[ws'[c].message] = ws[c].pending[ws'[c].message] + 1
                      /\ ws'[c].sent = <<>>
                 [] OTHER -> TRUE
       /\ \A kind \in RequestKinds :
            (ReplyStep(c, kind) /\ ws[c].readyState = "OPEN") =>
              /\ \A d \in Conns \ {c} : ws'[d] = ws[d]
              /\ Written(c) = 1
              /\ IF kind = "get_counters"
                 THEN ws'[c].sent = <<CounterUpdate(counters)>>
                 ELSE ws'[c].sent[1].type \in {"statistics_update", "error"}]_vars

\* ------------------------------------------------------------------------
\* C23: a message sent while the server still fetches the initial data
\* ------------------------------------------------------------------------
\* the step hands the message of c to the dispatcher: it is answered at once
\* or its awaited read is started
DispatchStep(c) ==
  \/ Written(c) = 1
  \/ \E kind \in RequestKinds : ws'[c].pending[kind] = ws[c].pending[kind] + 1

\* C23: every message that arrives on an open connection, also one that
\* arrives before connection_confirmed was written, is dispatched
C23_EarlyMessageDispatched ==
  [][\A c \in Conns : ReceiveStep(c) => DispatchStep(c)]_vars

\* ------------------------------------------------------------------------
\* C24: an exception of one send does not stop a broadcast
\* ------------------------------------------------------------------------
\* C24: in a broadcast, the exception of the send to one connection is caught
\* there; every subscribed connection with an open transport whose send does
\* not throw is written the counter_update once, and the broadcast returns
\* to its handler, which answers the request with 200
C24_ThrowingSendIsolated ==
  [][\A p \in WsReqs :
       BroadcastStep(p) =>
         /\ \A c \in Conns :
              Eligible(c) =>
                IF ws[c].sendThrows
                THEN ws'[c] = [ws[c] EXCEPT !.sent = <<>>, !.caught = 1]
                ELSE ws'[c] = [ws[c] EXCEPT !.sent = <<CounterUpdate(http[p].snapshot)>>,
                                            !.nsent = @ + 1, !.caught = 0]
         /\ http'[p].status = 200
         /\ ~http'[p].threw]_vars

\* a broadcast was completed in which the send to one connection threw and
\* another connection was written the counter_update
C24_OneThrewOtherReceived ==
  \E p \in WsReqs, c, d \in Conns :
    /\ http[p].pc = "done" /\ http[p].status = 200
    /\ ws[c].pc = "ready" /\ ws[c].sendThrows /\ ws[c].caught = 1
    /\ ws[d].pc = "ready" /\ ~ws[d].sendThrows /\ ws[d].readyState = "OPEN"
    /\ ws[d].sent = <<CounterUpdate(counters)>>

\* ------------------------------------------------------------------------
\* C25: the limit and offset of a history query
\* ------------------------------------------------------------------------
\* the history request of p has called the repository
HistoryQueried(p) ==
  http[p].kind = "history" /\ (http[p].pc \in {"history_rows", "history_count"} \/ http[p].success)

\* C25: whatever limit and offset getCounterHistory is given, the repository
\* is queried with the smaller of the limit and 1000 and with the larger of
\* the offset and 0, and returns no more rows than that limit
C25_EffectiveLimitOffset ==
  \A p \in Reqs :
    HistoryQueried(p) =>
      /\ http[p].params.limit = (IF http[p].filters.limit > 1000 THEN 1000
                                 ELSE http[p].filters.limit)
      /\ http[p].params.offset = (IF http[p].filters.offset < 0 THEN 0
                                  ELSE http[p].filters.offset)
      /\ http[p].success => Len(http[p].data.history) <= http[p].params.limit

\* a request for limit 5000 and offset -5 was served with 1000 and 0
C25_CappedAndRaised ==
  \E p \in Reqs :
    /\ http[p].pc = "done" /\ http[p].success /\ http[p].kind = "history"
    /\ http[p].filters = [limit |-> 5000, offset |-> 0 - 5]
    /\ http[p].params = [limit |-> 1000, offset |-> 0]
    /\ Len(http[p].data.history) = 2

\* ------------------------------------------------------------------------
\* C26: a time range that is not recognized
\* ------------------------------------------------------------------------
Recognized == {"1 hour", "24 hours", "7 days", "30 days", "1 year"}

\* C26: a statistics request for a time range that is not one of the five
\* recognized labels returns the statistics of the last 24 hours, as a
\* request for '24 hours' does on the same store, unless its query fails in
\* the database
C26_UnknownRangeIs24Hours ==
  \A p \in Reqs :
    (http[p].kind = "stats" /\ http[p].pc = "done" /\ http[p].timeRange \notin Recognized) =>
      \/ http[p].success /\ http[p].stats = StatsWithin(24)
      \/ ~http[p].success /\ faults < MaxFaults

\* ------------------------------------------------------------------------
\* C27: the health status
\* ------------------------------------------------------------------------
\* the step in which the counters read of the health request of p returns
HealthStep(p) == http[p].pc = "health_counters" /\ http'[p].pc = "done"

\* C27: a health request reports 'healthy' (and is answered 200) only if its
\* probe and its read of the counters both succeeded; if the probe or the
\* read failed it reports 'unhealthy' (503); no exception leaves it
C27_HealthyOnlyIfBothSucceed ==
  [][\A p \in Reqs :
       HealthStep(p) =>
         /\ ~http'[p].threw
         /\ IF http[p].database = "healthy" /\ http'[p].error = ""
            THEN http'[p].health = "healthy" /\ http'[p].status = 200
            ELSE http'[p].health = "unhealthy" /\ http'[p].status = 503]_vars

\* one health request found the probe failed and the counters readable,
\* another found both working
C27_ProbeFailedReadWorked ==
  \E p, q \in Reqs :
    /\ http[p].pc = "done" /\ http[p].database = "unhealthy" /\ http[p].success
    /\ http[p].health = "unhealthy"
    /\ http[q].pc = "done" /\ http[q].health = "healthy"

\* ------------------------------------------------------------------------
\* C28: the graceful shutdown
\* ------------------------------------------------------------------------
\* the server closes the open transport of c in this step
ClosedByServer(c) ==
  ws[c].readyState = "OPEN" /\ ws'[c].readyState = "CLOSING" /\ ws'[c].nerr = ws[c].nerr

\* C28: the shutdown closes no open connection without writing
\* server_shutdown to it first
C28_ShutdownNotifiesBeforeClose ==
  [][\A c \in Conns :
       ClosedByServer(c) => ws'[c].sent = <<Msg("server_shutdown")>> /\ Written(c) = 1]_vars

\* ------------------------------------------------------------------------
\* C29: the last counter_update after the mutations have stopped
\* ------------------------------------------------------------------------
\* c was accepted before the first broadcast and is still subscribed with an
\* open transport: besides the three messages of its acceptance it was
\* written the counter_update of every request, one of them last
LastIsBroadcast(c) ==
  /\ ws[c].pc = "ready" /\ ws[c].readyState = "OPEN" /\ ws[c].subscribed # "false"
  /\ ws[c].nsent = 3 + NumReqs
  /\ Len(ws[c].sent) = 1 /\ ws[c].sent[1].type = "counter_update"

\* C29: once every request is answered, the counter_update last written to a
\* connection that was subscribed with an open transport throughout carries
\* the stored counts
C29_LastUpdateIsFinal ==
  \A c \in Conns :
    (AllDone /\ LastIsBroadcast(c)) => ws[c].sent[1].data = counters

\* ------------------------------------------------------------------------
\* C30: the rate limit of the reset route
\* ------------------------------------------------------------------------
\* the times of the hour that starts at t
HourFrom(t) == {u \in Times : t <= u /\ u < t + 3600000}

\* C30: of the reset requests of one address, at most 5 in any hour reach
\* the handler; a request answered 429 started no transaction
C30_FiveResetsPerHour ==
  /\ \A ip \in ClientIps, t \in Times : Total(ip, HourFrom(t)) <= 5
  /\ \A p \in Reqs : http[p].status = 429 => http[p].pc = "done" /\ http[p].txStarted = 0

\* ------------------------------------------------------------------------
\* C31: the ids of the registry
\* ------------------------------------------------------------------------
\* connection c is accepted in this step
RegisterStep(c) == ws[c].pc = "none" /\ ws'[c].pc # "none"

\* C31: a connection is never registered under an id that is in the
\* registry, and registering it leaves every entry of the registry in place
C31_FreshClientId ==
  [][\A c \in Conns :
       RegisterStep(c) =>
         /\ ws'[c].clientId \notin DOMAIN clients
         /\ \A id \in DOMAIN clients : id \in DOMAIN clients' /\ clients'[id] = clients[id]]_vars

\* ------------------------------------------------------------------------
\* C32: closed connections leave the registry
\* ------------------------------------------------------------------------
\* C32: a registered connection whose transport has closed, also one that
\* closed before its 'close' listener was attached, is eventually removed
\* from the registry, and no later than by the next run of the cleanup
C32_ClosedEventuallyRemoved ==
  /\ \A c \in Conns : (ws[c].readyState = "CLOSED" /\ Registered(c)) ~> ~Registered(c)
  /\ [][cleanupInterval =>
          \A id \in DOMAIN clients' : ws[clients'[id]].readyState = "OPEN"]_vars

\* a connection closed while its initial data was still being sent, and its
\* entry has been removed
C32_ClosedEarlyRemoved ==
  \E c \in Conns :
    /\ ws[c].readyState = "CLOSED" /\ ~ws[c].handlers
    /\ ws[c].pc \in {"init_counters", "init_stats"}
    /\ ~Registered(c)

\* ------------------------------------------------------------------------
\* C33: a batch applies exactly its successful items
\* ------------------------------------------------------------------------
\* batchIncrementCounters has returned to the handler of request p, and no
\* other request was made
BatchAlone(p) ==
  /\ http[p].kind = "batch"
  /\ http[p].pc \in {"bcast_read", "bcast_send", "done"}
  /\ http[p].total > 0
  /\ \A q \in Reqs \ {p} : http[q].pc = "idle"

\* C33: without concurrent operations, when batchIncrementCounters has
\* returned, the count of each color has grown by exactly the sum of
\* incrementBy over the items of that color in data.successful; failed
\* items change nothing, whatever their position in the batch
C33_BatchAppliesSuccessfulItems ==
  \A p \in Reqs :
    BatchAlone(p) =>
      /\ Len(http[p].successful) + Len(http[p].failed) = http[p].total
      /\ \A color \in Colors :
           counters[color] = count0[color] + SumIncrements(http[p].successful, color)

\* a batch of two items returned with one item applied and the other one
\* failed in the store
C33_OneAppliedOneRolledBack ==
  \E p \in Reqs :
    /\ BatchAlone(p)
    /\ Len(http[p].successful) = 1
    /\ Len(http[p].failed) = 1
    /\ http[p].failed[1].error = StorageError
    /\ counters[http[p].successful[1].color] = count0[http[p].successful[1].color] + 1

\* ------------------------------------------------------------------------
\* C34: what an increment changes and what it leaves alone
\* ------------------------------------------------------------------------
\* the increment of request p has returned to its handler, and no other
\* request was made
IncrementAlone(p) ==
  /\ http[p].kind \in Colors
  /\ http[p].pc \in {"bcast_read", "bcast_send", "done"}
  /\ \A q \in Reqs \ {p} : http[q].pc = "idle"

\* C34: a successful increment of one color leaves the count of the other
\* color as it was, returns newCount = previousCount + incrementBy, and that
\* is the count stored and the count the next read of the counters returns;
\* a failed increment (validation error or rolled-back transaction) leaves
\* both counts as they were
C34_IncrementFrame ==
  \A p \in Reqs :
    IncrementAlone(p) =>
      IF http[p].success
      THEN LET d == http[p].successful[1] IN
           /\ d.color = http[p].kind
           /\ d.previousCount = count0[d.color]
           /\ d.newCount = d.previousCount + d.incrementBy
           /\ counters[d.color] = d.newCount
           /\ \A c \in Colors \ {d.color} : counters[c] = count0[c]
           /\ http[p].pc = "bcast_send" => http[p].snapshot = counters
      ELSE counters = count0

\* an increment by 2 of one color has committed and the counters were read
\* again, while the other color has a count other than 0
C34_IncrementedByTwoAndRead ==
  \E p \in Reqs :
    /\ IncrementAlone(p)
    /\ http[p].success
    /\ http[p].pc = "bcast_send"
    /\ http[p].successful[1].incrementBy = 2
    /\ \E c \in Colors \ {http[p].kind} : count0[c] = 1 /\ count0[http[p].kind] = 0

\* ------------------------------------------------------------------------
\* C35: HTTP increments with an amount that is not a positive integer
\* ------------------------------------------------------------------------
\* C35: a POST /api/red or /api/blue whose body carries an incrementBy that
\* is not a positive integer, 0 included, is answered 400 at once and
\* starts no transaction, so the counter stays as it was
C35_InvalidAmountAnswered400 ==
  [][\A p \in Reqs, color \in Colors, body \in AmountInputs \ {Undefined} :
       (incrementColor(p, color, body) /\ InvalidAmount(body)) =>
         /\ http'[p].pc = "done"
         /\ http'[p].status = 400
         /\ http'[p].txStarted = 0
         /\ counters' = counters]_vars

\* ------------------------------------------------------------------------
\* C36: connections that answer the pings of the cleanup
\* ------------------------------------------------------------------------
\* C36: a registered, open connection that has answered every ping sent to
\* it so far is neither terminated nor removed from the registry by a run
\* of the cleanup or by the cleanup's one-second timer
C36_ResponsiveKept ==
  [][\A c \in Conns :
       (/\ Registered(c)
        /\ ws[c].readyState = "OPEN"
        /\ ~ws[c].pinged
        /\ (cleanupInterval \/ GraceTimeout(c)))
         => /\ ws'[c].readyState = "OPEN"
            /\ \E id \in DOMAIN clients' : clients'[id] = c]_vars

\* ------------------------------------------------------------------------
\* C37: the broadcast of a mutation reads after the mutation's commit
\* ------------------------------------------------------------------------
\* the snapshot that the broadcast of request p is about to send
SnapshotRead(p) == http[p].pc = "bcast_send"

\* C37: as long as no reset has committed, the snapshot read for the
\* broadcast of a request carries, for every increment the request was
\* told has succeeded, a count of that color of at least the increment's
\* newCount
C37_SnapshotAfterCommit ==
  ~ResetCommitted =>
    \A p \in Reqs :
      SnapshotRead(p) =>
        \A i \in 1..Len(http[p].successful) :
          http[p].snapshot[http[p].successful[i].color] >= http[p].successful[i].newCount

\* the snapshot of one request's broadcast already carries the increment of
\* another request that committed between the commit and the read
C37_SnapshotAheadOfNewCount ==
  /\ ~ResetCommitted
  /\ \E p \in Reqs :
       /\ SnapshotRead(p)
       /\ http[p].kind \in Colors
       /\ Len(http[p].successful) = 1
       /\ http[p].snapshot[http[p].kind] > http[p].successful[1].newCount

\* ------------------------------------------------------------------------
\* C38: the pool client of a transaction
\* ------------------------------------------------------------------------
\* C38: the client that beginTransaction took from the pool is released
\* exactly once on every path of incrementCounter and resetCounters: no
\* request is outside a transaction with its client still held, and only a
\* held client is ever released
C38_ClientReleasedOnce ==
  /\ [](\A p \in Reqs : http[p].pc \notin TxPcs => http[p].client # "held")
  /\ [][\A p \in Reqs :
          http'[p].releases > http[p].releases => http[p].client = "held"]_vars

\* ------------------------------------------------------------------------
\* C39: the migrations run once and keep the stored rows
\* ------------------------------------------------------------------------
\* run r of migrate() failed in the up() of its first pending migration
FailedInUp(r) == runner[r].pc = "failed" /\ runner[r].i >= 1 /\ runner[r].ran = 0

\* C39: once a call of migrate() has completed, table migrations holds every
\* version exactly once; a call that starts after that executes no
\* migration and none of its steps changes the counters, the history, the
\* tables or table migrations; and a failing step of a migration records
\* nothing and ends the call, which runs no further migration
C39_MigrateOnce ==
  /\ []((\E r \in Runs : runner[r].pc = "completed") =>
          /\ Len(migrationsTable) = Len(Migrations)
          /\ \A j \in 1..Len(Migrations) :
               \E k \in 1..Len(migrationsTable) : migrationsTable[k] = Migrations[j])
  /\ [](\A r \in Runs : runner[r].later => runner[r].ran = 0)
  /\ [][\A r \in Runs :
          (runner[r].later /\ runner'[r] # runner[r]) =>
            /\ counters' = counters /\ history' = history
            /\ tables' = tables /\ migrationsTable' = migrationsTable]_vars
  /\ [][\A r \in Runs :
          /\ (runner[r].pc = "up" /\ runner'[r].pc = "failed") =>
               /\ migrationsTable' = migrationsTable
               /\ counters' = counters /\ history' = history /\ tables' = tables
          /\ runner[r].pc = "failed" => runner'[r] = runner[r]]_vars

\* one call failed in the up() of its first pending migration, the server
\* incremented red, and a call that started after another one had completed
\* has completed without executing a migration
C39_LaterRunDidNothing ==
  /\ \E r \in Runs : FailedInUp(r)
  /\ \E r \in Runs : runner[r].pc = "completed" /\ runner[r].later /\ runner[r].ran = 0
  /\ counters["red"] = 1
  /\ migrationsTable = Migrations

====
